---- MODULE Spec2Model ----
(***************************************************************************)
(* The dispatch and batching engine of Ralli: the ride state machine, the  *)
(* single-ride dispatcher, the batch dispatcher and the no-show sweep,     *)
(* over the rows of ride_requests, drivers, ride_batches, ride_batch_items *)
(* and rider_penalties.                                                    *)
(*                                                                         *)
(* Ids are positions: ride i is the i-th row inserted into ride_requests,  *)
(* so ascending id is ascending created_at.  Coordinates are counted in    *)
(* units of 1/256 degree and every point lies on one meridian (the same    *)
(* longitude), where the haversine distance is exactly R * |dLat|.  Time   *)
(* is counted in minutes.                                                  *)
(***************************************************************************)
EXTENDS Integers, Sequences, FiniteSets, TLC

\* ---------------------------------------------------------------- bounds
MaxRides == 2
NumDrivers == 2
MaxCoord == 2
MaxNow == 4
MaxClock == 24
NumCalls == 2

\* ------------------------------------------------------ program constants
NO_SHOW_TIMER_MINUTES == 3
NO_SHOW_THRESHOLD == 2
COOLDOWN_MINUTES == 15
GRID_PRECISION == 200
DEFAULT_MAX_CAPACITY == 4
MAX_PER_TRIP == 4
MIN_PASSENGERS == 1
MIN_ETA_MINUTES == 2
MAX_ETA_MINUTES == 60
MAX_PASSENGERS == 4

\* ---------------------------------------------------------------- values
Null == 0            \* SQL NULL of an id column (ids start at 1)
NoCoord == 0 - 1     \* SQL NULL of a coordinate column
NoTime == 0 - 1      \* SQL NULL of a timestamp column
Lngs == {1}          \* the one longitude shared by every point of the model

Drivers == 1..NumDrivers
Calls == 1..NumCalls
Hashes == {"h1"}
\* a ride submitted before the page had computed the rider's hash carries none
NoHash == ""
DriverLats == 0..MaxCoord
\* handleRideSubmit stores `pickupLat || 40.7128`: a pickup latitude of 0 is
\* never stored
PickupLats == 1..MaxCoord

RideStatus ==
    {"waiting", "assigned", "arrived", "in_progress", "completed", "cancelled", "no_show"}

VALID_RIDE_TRANSITIONS ==
    [s \in RideStatus |->
        CASE s = "waiting" -> {"assigned", "cancelled"}
          [] s = "assigned" -> {"arrived", "cancelled", "no_show"}
          [] s = "arrived" -> {"in_progress", "cancelled", "no_show"}
          [] s = "in_progress" -> {"completed", "cancelled"}
          [] OTHER -> {}]

VARIABLES rides, drivers, batches, items, penalties, now, last, calls, cooldownStatus
vars == <<rides, drivers, batches, items, penalties, now, last, calls, cooldownStatus>>

\* ------------------------------------------------------------ pure helpers
Abs(x) == IF x < 0 THEN 0 - x ELSE x

Min(a, b) == IF a < b THEN a ELSE b

\* JavaScript truthiness of a nullable number: null and 0 are falsy
Truthy(x) == x # NoCoord /\ x # 0

\* R * pi / 180 / 256 km, in millimetres
MM_PER_UNIT == 434355
MS_PER_MINUTE == 60000

\* haversineDistance, in millimetres.  With dLng = 0 the formula reduces to
\* a = sin^2(dLat/2), c = |dLat|, distance = R * |dLat|.
haversineDistance(lat1, lng1, lat2, lng2) == MM_PER_UNIT * Abs(lat2 - lat1)

\* Math.ceil(a / b) for a >= 0, b > 0
CeilDiv(a, b) == (a + b - 1) \div b

\* Math.round(x / 256 * GRID_PRECISION) = floor(x * 200 / 256 + 1/2)
RoundGrid(x) == (2 * GRID_PRECISION * x + 256) \div 512

generateClusterKey(lat, lng) == <<RoundGrid(lat), RoundGrid(lng)>>

\* mutant: any change of status passes
isValidTransition_AnyChange(currentStatus, newStatus) == newStatus # currentStatus

isValidTransition(currentStatus, newStatus) ==
    newStatus \in VALID_RIDE_TRANSITIONS[currentStatus]

RideIds == 1..Len(rides)

\* rides.reduce((sum, r) => sum + r.passenger_count, 0)
RECURSIVE sumPassengerCount(_, _)
sumPassengerCount(rs, ids) ==
    IF ids = <<>> THEN 0
    ELSE rs[Head(ids)].passenger_count + sumPassengerCount(rs, Tail(ids))

\* ----------------------------------------------------------------- Init
NewDriver ==
    [is_online |-> FALSE, current_status |-> "offline",
     current_lat |-> NoCoord, current_lng |-> NoCoord,
     max_capacity |-> DEFAULT_MAX_CAPACITY, current_passenger_load |-> 0]

Result(op, ok, count) == [op |-> op, ok |-> ok, count |-> count]

\* What the caller of the last operation got back.  The observer is either on
\* for a whole behaviour or off for a whole behaviour: a specification whose
\* claims do not speak of results runs with it off.
Unobserved == Result("unobserved", TRUE, 0)

Record(op, ok, count) ==
    last' = IF last = Unobserved THEN last ELSE Result(op, ok, count)

\* CooldownStatus: what getCooldownStatus answers, and what the rider page
\* keeps of it; the page starts without an answer, which it reads as "not in
\* cooldown"
NoCooldown == [is_in_cooldown |-> FALSE, remaining_minutes |-> 0]

\* A dispatch invocation whose storage calls are taken one at a time: where
\* it stands and the locals it has read so far
IdleCall ==
    [pc |-> "idle", ride |-> Null, driver |-> Null, clusters |-> <<>>, k |-> 0,
     order |-> <<>>, total |-> 0, batch |-> Null, idx |-> 0, took |-> {}]

\* The state after the event is set up: no ride yet, every driver as
\* addDriverToEvent inserted it
Start(observer) ==
    /\ rides = <<>>
    /\ drivers = [d \in Drivers |-> NewDriver]
    /\ batches = <<>>
    /\ items = <<>>
    /\ penalties = [h \in Hashes |-> [present |-> FALSE, no_show_count |-> 0, cooldown_until |-> NoTime]]
    /\ now = 0
    /\ last = observer
    /\ calls = [c \in Calls |-> IdleCall]
    /\ cooldownStatus = [h \in Hashes |-> NoCooldown]

Init == Start(Unobserved)

InitObserved == Start(Result("none", TRUE, 0))

\* The four tables an operation reads and writes, threaded through the
\* operations that make several storage calls.
DB == [rides |-> rides, drivers |-> drivers, batches |-> batches, items |-> items]

Commit(db) ==
    /\ rides' = db.rides
    /\ drivers' = db.drivers
    /\ batches' = db.batches
    /\ items' = db.items

\* ------------------------------------------------- rider and driver pages
InCooldown(h) ==
    /\ penalties[h].present
    /\ penalties[h].cooldown_until # NoTime
    /\ penalties[h].cooldown_until > now

NewRide(lat, lng, pc, h) ==
    [status |-> "waiting", assigned_driver_id |-> Null, batch_id |-> Null,
     pickup_sequence_index |-> Null - 1,
     pickup_lat |-> lat, pickup_lng |-> lng, passenger_count |-> pc,
     rider_confirmed |-> FALSE, rider_identifier_hash |-> h,
     arrival_timestamp |-> NoTime, arrival_deadline_timestamp |-> NoTime,
     completion_timestamp |-> NoTime]

\* mutant: a cooldown that ends at this very moment still counts as active
getCooldownStatus_Inclusive(pen, h, t) ==
    IF ~pen[h].present \/ pen[h].cooldown_until = NoTime THEN NoCooldown
    ELSE IF pen[h].cooldown_until < t THEN NoCooldown
    ELSE [is_in_cooldown |-> TRUE,
          remaining_minutes |-> CeilDiv((pen[h].cooldown_until - t) * MS_PER_MINUTE,
                                        MS_PER_MINUTE)]

\* getCooldownStatus at time t: a select, and the answer computed from it
getCooldownStatus(pen, h, t) ==
    IF ~pen[h].present \/ pen[h].cooldown_until = NoTime THEN NoCooldown
    ELSE IF pen[h].cooldown_until <= t THEN NoCooldown
    ELSE LET remainingMs == (pen[h].cooldown_until - t) * MS_PER_MINUTE
         IN [is_in_cooldown |-> TRUE,
             remaining_minutes |-> CeilDiv(remainingMs, MS_PER_MINUTE)]

\* checkRiderStatus, run half a second after the rider's name changes: the
\* page keeps the answer of getCooldownStatus
CheckRiderStatus(h) ==
    /\ cooldownStatus' = [cooldownStatus EXCEPT ![h] = getCooldownStatus(penalties, h, now)]
    /\ cooldownStatus' # cooldownStatus
    /\ UNCHANGED <<rides, drivers, batches, items, penalties, now, last, calls>>

\* createRideRequest: an insert, whatever the rider's penalties are
createRideRequest(rs, lat, lng, pc, h) == Append(rs, NewRide(lat, lng, pc, h))

\* handleRideSubmit: the form's checks, the cooldown one against the answer
\* the page kept, then createRideRequest
handleRideSubmit(rs, kept, lat, lng, pc, h) ==
    IF pc < MIN_PASSENGERS \/ pc > MAX_PASSENGERS THEN rs
    ELSE IF kept.is_in_cooldown THEN rs
    ELSE createRideRequest(rs, lat, lng, pc, h)

\* handleRideSubmit -> createRideRequest
CreateRideRequest(lat, lng, pc, h) ==
    /\ Len(rides) < MaxRides
    /\ LET kept == IF h = NoHash THEN NoCooldown ELSE cooldownStatus[h]
       IN rides' = handleRideSubmit(rides, kept, lat, lng, pc, h)
    /\ rides' # rides
    /\ Record("none", TRUE, 0)
    /\ UNCHANGED <<drivers, batches, items, penalties, now, calls, cooldownStatus>>

\* mutant: whoever changes status is marked online
updateDriverStatus_AlwaysOnline(ds, driverId, status) ==
    [ds EXCEPT ![driverId].current_status = status, ![driverId].is_online = TRUE]

\* updateDriverStatus
updateDriverStatus(ds, driverId, status) ==
    [ds EXCEPT ![driverId].current_status = status,
               ![driverId].is_online = (status # "offline")]

\* handleToggleOnline -> updateDriverStatus: the toggle is disabled while the
\* driver is assigned
UpdateDriverStatus(d) ==
    /\ drivers[d].current_status # "assigned"
    /\ LET newStatus == IF drivers[d].current_status = "offline" THEN "available" ELSE "offline"
       IN drivers' = updateDriverStatus(drivers, d, newStatus)
    /\ Record("none", TRUE, 0)
    /\ UNCHANGED <<rides, batches, items, penalties, now, calls, cooldownStatus>>

\* watchPosition callback -> updateDriverLocation
UpdateDriverLocation(d, lat, lng) ==
    /\ drivers[d].current_lat # lat \/ drivers[d].current_lng # lng
    /\ drivers' = [drivers EXCEPT ![d].current_lat = lat, ![d].current_lng = lng]
    /\ Record("none", TRUE, 0)
    /\ UNCHANGED <<rides, batches, items, penalties, now, calls, cooldownStatus>>

\* the passage of time, in steps just long enough for an arrival deadline
\* set before the step to have passed after it
TickMinutes == NO_SHOW_TIMER_MINUTES + 1

Tick ==
    /\ now + TickMinutes <= MaxNow
    /\ now' = now + TickMinutes
    /\ UNCHANGED <<rides, drivers, batches, items, penalties, last, calls, cooldownStatus>>

\* ------------------------------------------------- single-ride dispatcher
\* mutant: the query forgets the is_online and current_status filters
AvailableLocated_AnyStatus(ds) ==
    {d \in Drivers : ds[d].current_lat # NoCoord /\ ds[d].current_lng # NoCoord}

\* The rows the drivers query of findNearestDriver returns (rows come back in
\* id order)
AvailableLocated(ds) ==
    {d \in Drivers : /\ ds[d].is_online
                     /\ ds[d].current_status = "available"
                     /\ ds[d].current_lat # NoCoord
                     /\ ds[d].current_lng # NoCoord}

\* The loop of findNearestDriver: a row enters the comparison only if both of
\* its coordinates are truthy; a strictly smaller distance replaces the
\* nearest so far, so the first row wins a tie.  Null when no row qualifies.
NearestOf(ds, cands, lat, lng) ==
    LET usable == {d \in cands : Truthy(ds[d].current_lat) /\ Truthy(ds[d].current_lng)}
        dist(d) == haversineDistance(lat, lng, ds[d].current_lat, ds[d].current_lng)
    IN IF usable = {} THEN Null
       ELSE CHOOSE d \in usable :
                \A e \in usable : dist(d) < dist(e) \/ (dist(d) = dist(e) /\ d <= e)

findNearestDriver(ds, pickupLat, pickupLng) ==
    NearestOf(ds, AvailableLocated(ds), pickupLat, pickupLng)

\* mutant: the order is descending, the newest waiting ride comes first
getOldestWaitingRide_Newest(rs) ==
    LET waiting == {r \in 1..Len(rs) : rs[r].status = "waiting"}
    IN IF waiting = {} THEN Null
       ELSE CHOOSE r \in waiting : \A q \in waiting : r >= q

getOldestWaitingRide(rs) ==
    LET waiting == {r \in 1..Len(rs) : rs[r].status = "waiting"}
    IN IF waiting = {} THEN Null
       ELSE CHOOSE r \in waiting : \A q \in waiting : r <= q

\* mutant: the error of the driver write is not looked at
assignDriverToRide_IgnoresDriverError(db, rideId, driverId, etaMinutes, updateDriverError) ==
    IF ~isValidTransition(db.rides[rideId].status, "assigned")
    THEN [db |-> db, ok |-> FALSE]
    ELSE IF updateDriverError
    THEN [db |-> [db EXCEPT !.rides[rideId].assigned_driver_id = driverId,
                            !.rides[rideId].status = "assigned"],
          ok |-> TRUE]
    ELSE [db |-> [db EXCEPT !.rides[rideId].assigned_driver_id = driverId,
                            !.rides[rideId].status = "assigned",
                            !.drivers[driverId].current_status = "assigned"],
          ok |-> TRUE]

\* assignDriverToRide: [db, ok].  updateDriverError: the storage answers the
\* update of the driver row with an error, after the ride row was written
assignDriverToRide(db, rideId, driverId, etaMinutes, updateDriverError) ==
    IF ~isValidTransition(db.rides[rideId].status, "assigned")
    THEN [db |-> db, ok |-> FALSE]
    ELSE IF updateDriverError
    THEN [db |-> [db EXCEPT !.rides[rideId].assigned_driver_id = driverId,
                            !.rides[rideId].status = "assigned"],
          ok |-> FALSE]
    ELSE [db |-> [db EXCEPT !.rides[rideId].assigned_driver_id = driverId,
                            !.rides[rideId].status = "assigned",
                            !.drivers[driverId].current_status = "assigned"],
          ok |-> TRUE]

\* Math.ceil((distance / 30) * 60), distance in millimetres; undefined (Null)
\* when the distance is 0
DispatchEta(distance) == IF distance = 0 THEN Null ELSE CeilDiv(distance, 500000)

\* smartDispatch: [db, assigned, ok]
smartDispatch(db, updateDriverError) ==
    LET ride == getOldestWaitingRide(db.rides)
    IN IF ride = Null THEN [db |-> db, assigned |-> FALSE, ok |-> TRUE]
       ELSE LET lat == db.rides[ride].pickup_lat
                lng == db.rides[ride].pickup_lng
                driver == findNearestDriver(db.drivers, lat, lng)
            IN IF driver = Null THEN [db |-> db, assigned |-> FALSE, ok |-> TRUE]
               ELSE LET distance == haversineDistance(lat, lng,
                                        db.drivers[driver].current_lat,
                                        db.drivers[driver].current_lng)
                        res == assignDriverToRide(db, ride, driver, DispatchEta(distance),
                                                  updateDriverError)
                    IN [db |-> res.db, assigned |-> res.ok, ok |-> res.ok]

\* dispatchAllRides: the while loop, cut after `fuel` iterations; [db,
\* assignedCount, ok, returned].  returned = FALSE means the loop was still
\* running when the fuel ran out.  failAt: which of the loop's assignments
\* has its driver write answered with an error (NoFailure: none)
RECURSIVE dispatchLoop(_, _, _, _)
dispatchLoop(db, assignedCount, fuel, failAt) ==
    IF fuel = 0
    THEN [db |-> db, assignedCount |-> assignedCount, ok |-> TRUE, returned |-> FALSE]
    ELSE LET res == smartDispatch(db, failAt = assignedCount + 1)
         IN IF ~res.ok
            THEN [db |-> res.db, assignedCount |-> assignedCount, ok |-> FALSE, returned |-> TRUE]
            ELSE IF res.assigned
            THEN dispatchLoop(res.db, assignedCount + 1, fuel - 1, failAt)
            ELSE [db |-> res.db, assignedCount |-> assignedCount, ok |-> TRUE, returned |-> TRUE]

\* More iterations than any run of the loop can need: every assigning
\* iteration takes one of the rides
LoopFuel == MaxRides + NumDrivers + 2

NoFailure == 0

dispatchAllRides(db, failAt) == dispatchLoop(db, 0, LoopFuel, failAt)

\* handleAssignDriver -> assignDriverToRide: the modal offers the drivers whose
\* status is available
AssignDriverToRide(rideId, driverId) ==
    /\ rideId \in RideIds
    /\ drivers[driverId].current_status = "available"
    /\ LET res == assignDriverToRide(DB, rideId, driverId, Null, FALSE)
       IN /\ Commit(res.db)
          /\ Record("assignDriverToRide", res.ok, IF res.ok THEN 1 ELSE 0)
    /\ UNCHANGED <<penalties, now, calls, cooldownStatus>>

SmartDispatch ==
    /\ LET res == smartDispatch(DB, FALSE)
       IN /\ Commit(res.db)
          /\ Record("smartDispatch", res.ok, IF res.assigned THEN 1 ELSE 0)
    /\ UNCHANGED <<penalties, now, calls, cooldownStatus>>

\* runAutoAssign -> dispatchAllRides
DispatchAllRides ==
    /\ LET res == dispatchAllRides(DB, NoFailure)
       IN /\ res.returned
          /\ Commit(res.db)
          /\ Record("dispatchAllRides", res.ok, res.assignedCount)
    /\ UNCHANGED <<penalties, now, calls, cooldownStatus>>

\* the same three callers while the storage rejects a write to the driver row
AssignDriverToRideDriverError(rideId, driverId) ==
    /\ rideId \in RideIds
    /\ drivers[driverId].current_status = "available"
    /\ LET res == assignDriverToRide(DB, rideId, driverId, Null, TRUE)
       IN /\ Commit(res.db)
          /\ Record("assignDriverToRide", res.ok, IF res.ok THEN 1 ELSE 0)
    /\ UNCHANGED <<penalties, now, calls, cooldownStatus>>

SmartDispatchDriverError ==
    /\ LET res == smartDispatch(DB, TRUE)
       IN /\ Commit(res.db)
          /\ Record("smartDispatch", res.ok, IF res.assigned THEN 1 ELSE 0)
    /\ UNCHANGED <<penalties, now, calls, cooldownStatus>>

DispatchAllRidesDriverError(failAt) ==
    /\ LET res == dispatchAllRides(DB, failAt)
       IN /\ res.returned
          /\ ~res.ok
          /\ Commit(res.db)
          /\ Record("dispatchAllRides", res.ok, res.assignedCount)
    /\ UNCHANGED <<penalties, now, calls, cooldownStatus>>

\* ------------------------------------------------------ ride state machine
\* mutant: arriving stamps the arrival time but sets no deadline
transitionRideStatus_NoDeadline(db, rideId, newStatus, driverId, t) ==
    LET ride == db.rides[rideId]
    IN IF ~isValidTransition(ride.status, newStatus)
       THEN [db |-> db, ok |-> FALSE]
       ELSE LET updated ==
                    CASE newStatus = "arrived" ->
                            [ride EXCEPT !.status = newStatus,
                                         !.arrival_timestamp = t,
                                         !.rider_confirmed = FALSE]
                      [] newStatus = "completed" ->
                            [ride EXCEPT !.status = newStatus, !.completion_timestamp = t]
                      [] newStatus = "in_progress" ->
                            [ride EXCEPT !.status = newStatus, !.rider_confirmed = TRUE]
                      [] OTHER -> [ride EXCEPT !.status = newStatus]
                targetDriverId == IF driverId # Null THEN driverId ELSE ride.assigned_driver_id
                db1 == [db EXCEPT !.rides[rideId] = updated]
            IN IF newStatus \in {"completed", "cancelled", "no_show"} /\ targetDriverId # Null
               THEN [db |-> [db1 EXCEPT !.drivers[targetDriverId].current_status = "available"],
                     ok |-> TRUE]
               ELSE [db |-> db1, ok |-> TRUE]

\* mutant: only a completed ride frees its driver
transitionRideStatus_FreesOnCompleted(db, rideId, newStatus, driverId, t) ==
    LET ride == db.rides[rideId]
    IN IF ~isValidTransition(ride.status, newStatus)
       THEN [db |-> db, ok |-> FALSE]
       ELSE LET updated ==
                    CASE newStatus = "arrived" ->
                            [ride EXCEPT !.status = newStatus,
                                         !.arrival_timestamp = t,
                                         !.arrival_deadline_timestamp = t + NO_SHOW_TIMER_MINUTES,
                                         !.rider_confirmed = FALSE]
                      [] newStatus = "completed" ->
                            [ride EXCEPT !.status = newStatus, !.completion_timestamp = t]
                      [] newStatus = "in_progress" ->
                            [ride EXCEPT !.status = newStatus, !.rider_confirmed = TRUE]
                      [] OTHER -> [ride EXCEPT !.status = newStatus]
                targetDriverId == IF driverId # Null THEN driverId ELSE ride.assigned_driver_id
                db1 == [db EXCEPT !.rides[rideId] = updated]
            IN IF newStatus \in {"completed"} /\ targetDriverId # Null
               THEN [db |-> [db1 EXCEPT !.drivers[targetDriverId].current_status = "available"],
                     ok |-> TRUE]
               ELSE [db |-> db1, ok |-> TRUE]

\* transitionRideStatus: [db, ok]
transitionRideStatus(db, rideId, newStatus, driverId, t) ==
    LET ride == db.rides[rideId]
    IN IF ~isValidTransition(ride.status, newStatus)
       THEN [db |-> db, ok |-> FALSE]
       ELSE LET updated ==
                    CASE newStatus = "arrived" ->
                            [ride EXCEPT !.status = newStatus,
                                         !.arrival_timestamp = t,
                                         !.arrival_deadline_timestamp = t + NO_SHOW_TIMER_MINUTES,
                                         !.rider_confirmed = FALSE]
                      [] newStatus = "completed" ->
                            [ride EXCEPT !.status = newStatus, !.completion_timestamp = t]
                      [] newStatus = "in_progress" ->
                            [ride EXCEPT !.status = newStatus, !.rider_confirmed = TRUE]
                      [] OTHER -> [ride EXCEPT !.status = newStatus]
                targetDriverId == IF driverId # Null THEN driverId ELSE ride.assigned_driver_id
                db1 == [db EXCEPT !.rides[rideId] = updated]
            IN IF newStatus \in {"completed", "cancelled", "no_show"} /\ targetDriverId # Null
               THEN [db |-> [db1 EXCEPT !.drivers[targetDriverId].current_status = "available"],
                     ok |-> TRUE]
               ELSE [db |-> db1, ok |-> TRUE]

\* handleMarkArrived, handleStartRide, handleCancelRide (no driverId) and
\* handleCompleteRide, handleNoShow (the ride's driver) -> transitionRideStatus
TransitionRideStatus(rideId, newStatus, driverId) ==
    /\ rideId \in RideIds
    /\ driverId \in {Null, rides[rideId].assigned_driver_id}
    /\ LET res == transitionRideStatus(DB, rideId, newStatus, driverId, now)
       IN /\ Commit(res.db)
          /\ Record("transitionRideStatus", res.ok, 0)
    /\ UNCHANGED <<penalties, now, calls, cooldownStatus>>

\* ------------------------------------------------ clustering and batching
\* a || b of JavaScript on numbers: b when a is 0 (or null)
JsOr(a, b) == IF a = 0 THEN b ELSE a

\* mutant: the seats in use are not subtracted
FreeCapacity_IgnoresLoad(d) == JsOr(d.max_capacity, DEFAULT_MAX_CAPACITY)

FreeCapacity(d) == JsOr(d.max_capacity, DEFAULT_MAX_CAPACITY) - JsOr(d.current_passenger_load, 0)

\* getWaitingRidesByCluster: the clusters, oldest first.  A cluster keeps its
\* ride ids in created_at order; avg_lat is kept as the exact fraction
\* sum_lat / Len(ride_ids) that the running average computes.
RECURSIVE clusterRides(_, _, _)
clusterRides(rs, i, clusters) ==
    IF i > Len(rs) THEN clusters
    ELSE IF rs[i].status # "waiting" \/ rs[i].batch_id # Null
    THEN clusterRides(rs, i + 1, clusters)
    ELSE LET key == generateClusterKey(rs[i].pickup_lat, rs[i].pickup_lng)
             at == {k \in 1..Len(clusters) : clusters[k].cluster_key = key}
         IN IF at = {}
            THEN clusterRides(rs, i + 1,
                     Append(clusters, [cluster_key |-> key, ride_ids |-> <<i>>,
                                       total_passengers |-> rs[i].passenger_count,
                                       sum_lat |-> rs[i].pickup_lat,
                                       avg_lng |-> rs[i].pickup_lng]))
            ELSE LET k == CHOOSE k \in at : TRUE
                 IN clusterRides(rs, i + 1,
                        [clusters EXCEPT ![k].ride_ids = Append(@, i),
                                         ![k].total_passengers = @ + rs[i].passenger_count,
                                         ![k].sum_lat = @ + rs[i].pickup_lat])

\* mutant: the final sort is descending, the youngest cluster comes first
getWaitingRidesByCluster_NewestFirst(rs) ==
    LET clusters == clusterRides(rs, 1, <<>>)
    IN [k \in 1..Len(clusters) |-> clusters[Len(clusters) + 1 - k]]

\* Rides are read in created_at order, so the clusters are met, and stay, in
\* the order of their oldest ride: the final sort changes nothing.
getWaitingRidesByCluster(rs) == clusterRides(rs, 1, <<>>)

findAvailableDriversWithCapacity(ds, requiredCapacity) ==
    {d \in AvailableLocated(ds) : FreeCapacity(ds[d]) >= requiredCapacity}

\* mutant: the rides are taken in the order they were given
calculatePickupOrder_InputOrder(rs, curLat, curLng, remaining) == remaining

\* calculatePickupOrder: the ride ids in nearest-neighbour order from the
\* driver's position; among equally near rides the first of `remaining` wins
RECURSIVE calculatePickupOrder(_, _, _, _)
calculatePickupOrder(rs, curLat, curLng, remaining) ==
    IF remaining = <<>> THEN <<>>
    ELSE LET dist(i) == haversineDistance(curLat, curLng,
                            rs[remaining[i]].pickup_lat, rs[remaining[i]].pickup_lng)
             idx == CHOOSE i \in 1..Len(remaining) :
                        \A j \in 1..Len(remaining) : dist(i) < dist(j) \/ (dist(i) = dist(j) /\ i <= j)
             r == remaining[idx]
             rest == SubSeq(remaining, 1, idx - 1) \o SubSeq(remaining, idx + 1, Len(remaining))
         IN <<r>> \o calculatePickupOrder(rs, rs[r].pickup_lat, rs[r].pickup_lng, rest)

\* The answer of the Distance Matrix request of getGoogleMapsETA, in minutes
\* (Math.ceil(durationSeconds / 60)); NoAnswer when no key is configured or
\* the request fails
NoAnswer == 0 - 1
GoogleMinutes == {NoAnswer, 0, MAX_ETA_MINUTES + 1}

Max(a, b) == IF a > b THEN a ELSE b

\* getFallbackETA: (km / 30) * 60 * 1.2 minutes = mm * 24 / 10^7, rounded up
\* and clamped
getFallbackETA(originLat, originLng, destLat, destLng) ==
    LET distanceMm == haversineDistance(originLat, originLng, destLat, destLng)
    IN Max(MIN_ETA_MINUTES, Min(MAX_ETA_MINUTES, CeilDiv(distanceMm * 24, 10000000)))

\* calculateETA: the Google answer when there is one, else the fallback
calculateETA(driverLat, driverLng, pickupLat, pickupLng, google) ==
    IF google # NoAnswer THEN google
    ELSE getFallbackETA(driverLat, driverLng, pickupLat, pickupLng)

\* How the Distance Matrix request of getGoogleMapsETA can end: no API key
\* configured, fetch or response.json() throwing, an answer whose status is
\* not OK, an answer with a duration
ProviderOutcomes == {"no_key", "throws", "not_ok", "ok"}
ProviderFailures == ProviderOutcomes \ {"ok"}

\* mutant: the exception of the request is not caught
getGoogleMapsETA_Rethrows(outcome, minutes) ==
    [threw |-> outcome = "throws",
     minutes |-> IF outcome = "ok" THEN minutes ELSE NoAnswer]

\* getGoogleMapsETA: null without a key, null from the catch block, null
\* after an answer that is not OK
getGoogleMapsETA(outcome, minutes) ==
    [threw |-> FALSE,
     minutes |-> IF outcome = "ok" THEN minutes ELSE NoAnswer]

\* calculateETA with the ETAResult it returns, or the exception that escapes
calculateETAResult(driverLat, driverLng, pickupLat, pickupLng, outcome, minutes) ==
    LET googleResult == getGoogleMapsETA(outcome, minutes)
    IN IF googleResult.threw
       THEN [threw |-> TRUE, etaMinutes |-> NoAnswer, source |-> "none"]
       ELSE [threw |-> FALSE,
             etaMinutes |-> calculateETA(driverLat, driverLng, pickupLat, pickupLng,
                                         googleResult.minutes),
             source |-> IF googleResult.minutes # NoAnswer THEN "google_maps"
                        ELSE "fallback"]

\* The eta_minutes calculatePickupOrder returns beside the order: the running
\* sum of the ETA of each leg.  google[k] is the Google answer for leg k.
RECURSIVE pickupEtaMinutes(_, _, _, _, _, _, _)
pickupEtaMinutes(rs, curLat, curLng, order, k, cumulativeTime, google) ==
    IF k > Len(order) THEN <<>>
    ELSE LET r == rs[order[k]]
             eta == calculateETA(curLat, curLng, r.pickup_lat, r.pickup_lng, google[k])
         IN <<cumulativeTime + eta>>
            \o pickupEtaMinutes(rs, r.pickup_lat, r.pickup_lng, order, k + 1,
                                cumulativeTime + eta, google)

RECURSIVE writeBatchRides(_, _, _, _, _)
writeBatchRides(rs, order, k, batchId, driverId) ==
    IF k > Len(order) THEN rs
    ELSE writeBatchRides(
            [rs EXCEPT ![order[k]].batch_id = batchId,
                       ![order[k]].pickup_sequence_index = k - 1,
                       ![order[k]].assigned_driver_id = driverId,
                       ![order[k]].status = "assigned"],
            order, k + 1, batchId, driverId)

\* mutant: the batch row stays when its items could not be inserted
deleteBatch_KeepsRow(bs, batchId) == bs

\* createBatch, the clean-up: delete from ride_batches where id = batchId
deleteBatch(bs, batchId) ==
    SubSeq(bs, 1, batchId - 1) \o SubSeq(bs, batchId + 1, Len(bs))

\* createBatch: [db, ok].  rideIds is in id order, the order the rows come
\* back in.  itemsError: the insert into ride_batch_items returns an error.
createBatch(db, driverId, rideIds, itemsError) ==
    LET driver == db.drivers[driverId]
    IN IF ~Truthy(driver.current_lat) \/ ~Truthy(driver.current_lng)
       THEN [db |-> db, ok |-> FALSE]
       ELSE LET totalPassengers == sumPassengerCount(db.rides, rideIds)
                batchId == Len(db.batches) + 1
                inserted == Append(db.batches,
                                [driver_id |-> driverId, status |-> "pending",
                                 total_passengers |-> totalPassengers])
                pickupOrder == calculatePickupOrder(db.rides, driver.current_lat,
                                                    driver.current_lng, rideIds)
                batchItems == [k \in 1..Len(pickupOrder) |->
                                  [batch_id |-> batchId, ride_request_id |-> pickupOrder[k],
                                   pickup_order_index |-> k - 1, picked_up |-> FALSE]]
            IN IF itemsError
               THEN [db |-> [db EXCEPT !.batches = deleteBatch(inserted, batchId)],
                     ok |-> FALSE]
               ELSE [db |-> [rides |-> writeBatchRides(db.rides, pickupOrder, 1,
                                                       batchId, driverId),
                             drivers |-> [db.drivers EXCEPT
                                            ![driverId].current_status = "assigned",
                                            ![driverId].current_passenger_load = totalPassengers],
                             batches |-> inserted,
                             items |-> db.items \o batchItems],
                     ok |-> TRUE]

\* mutant: every ride of the cluster is taken, fitting or not
selectRides_TakesAll(rs, ids, i, passengerCount, driverCapacity) == ids

\* mutant: the selection ends at the first ride that does not fit
RECURSIVE selectRides_StopsAtMisfit(_, _, _, _, _)
selectRides_StopsAtMisfit(rs, ids, i, passengerCount, driverCapacity) ==
    IF i > Len(ids) THEN <<>>
    ELSE IF passengerCount + rs[ids[i]].passenger_count <= driverCapacity
    THEN <<ids[i]>> \o selectRides_StopsAtMisfit(rs, ids, i + 1,
                          passengerCount + rs[ids[i]].passenger_count, driverCapacity)
    ELSE <<>>

\* The greedy selection of batchDispatch: every ride of the cluster, in
\* created_at order, that still fits beside the rides already taken
RECURSIVE selectRides(_, _, _, _, _)
selectRides(rs, ids, i, passengerCount, driverCapacity) ==
    IF i > Len(ids) THEN <<>>
    ELSE IF passengerCount + rs[ids[i]].passenger_count <= driverCapacity
    THEN <<ids[i]>> \o selectRides(rs, ids, i + 1,
                          passengerCount + rs[ids[i]].passenger_count, driverCapacity)
    ELSE selectRides(rs, ids, i + 1, passengerCount, driverCapacity)

\* The driver batchDispatch picks for a cluster: the nearest to the cluster's
\* centre among the rows with truthy coordinates, else the first row
pickBatchDriver(ds, cands, cluster) ==
    LET n == Len(cluster.ride_ids)
        usable == {d \in cands : Truthy(ds[d].current_lat) /\ Truthy(ds[d].current_lng)}
        dist(d) == (MM_PER_UNIT * Abs(cluster.sum_lat - n * ds[d].current_lat)) \div n
        first == CHOOSE d \in cands : \A e \in cands : d <= e
    IN IF usable = {} THEN first
       ELSE CHOOSE d \in usable :
                \A e \in usable : dist(d) < dist(e) \/ (dist(d) = dist(e) /\ d <= e)

\* batchDispatch: one pass over the clusters found at the start;
\* [db, batchesCreated, ridesAssigned]
RECURSIVE batchLoop(_, _, _, _, _, _)
batchLoop(db, clusters, k, batchesCreated, ridesAssigned, itemsError) ==
    IF k > Len(clusters)
    THEN [db |-> db, batchesCreated |-> batchesCreated, ridesAssigned |-> ridesAssigned]
    ELSE LET cluster == clusters[k]
             cands == findAvailableDriversWithCapacity(db.drivers,
                          Min(cluster.total_passengers, MAX_PER_TRIP))
             skip == batchLoop(db, clusters, k + 1, batchesCreated, ridesAssigned, itemsError)
         IN IF cands = {} THEN skip
            ELSE LET nearestDriver == pickBatchDriver(db.drivers, cands, cluster)
                     driverCapacity == FreeCapacity(db.drivers[nearestDriver])
                     ridesToBatch == selectRides(db.rides, cluster.ride_ids, 1, 0, driverCapacity)
                 IN IF ridesToBatch = <<>> THEN skip
                    ELSE LET res == createBatch(db, nearestDriver, ridesToBatch, itemsError)
                         IN IF ~res.ok
                            THEN batchLoop(res.db, clusters, k + 1, batchesCreated,
                                           ridesAssigned, itemsError)
                            ELSE batchLoop(res.db, clusters, k + 1, batchesCreated + 1,
                                           ridesAssigned + Len(ridesToBatch), itemsError)

batchDispatch(db, itemsError) ==
    batchLoop(db, getWaitingRidesByCluster(db.rides), 1, 0, 0, itemsError)

\* runAutoAssign in batch mode -> batchDispatch
BatchDispatch ==
    /\ LET res == batchDispatch(DB, FALSE)
       IN /\ Commit(res.db)
          /\ Record("batchDispatch", TRUE, res.ridesAssigned)
    /\ UNCHANGED <<penalties, now, calls, cooldownStatus>>

\* runAutoAssign in batch mode -> batchDispatch, while the storage rejects
\* the inserts into ride_batch_items
BatchDispatchItemsError ==
    /\ LET res == batchDispatch(DB, TRUE)
       IN /\ Commit(res.db)
          /\ Record("batchDispatch", TRUE, res.ridesAssigned)
    /\ UNCHANGED <<penalties, now, calls, cooldownStatus>>

ItemIds == 1..Len(items)
BatchIds == 1..Len(batches)

ItemsOf(its, b) == {i \in 1..Len(its) : its[i].batch_id = b}

\* mutant: a pickup gives the seats of its ride back to the driver
markPickupComplete_ReleasesSeats(db, itemId) ==
    LET item == db.items[itemId]
        its == [db.items EXCEPT ![itemId].picked_up = TRUE]
        rs == [db.rides EXCEPT ![item.ride_request_id].status = "in_progress",
                               ![item.ride_request_id].rider_confirmed = TRUE]
        remainingPickups == {i \in ItemsOf(its, item.batch_id) : ~its[i].picked_up}
        driverId == db.batches[item.batch_id].driver_id
    IN [db EXCEPT !.items = its, !.rides = rs,
                  !.batches = IF remainingPickups = {}
                              THEN [db.batches EXCEPT ![item.batch_id].status = "in_progress"]
                              ELSE db.batches,
                  !.drivers[driverId].current_passenger_load =
                        @ - db.rides[item.ride_request_id].passenger_count]

\* markPickupComplete
markPickupComplete(db, itemId) ==
    LET item == db.items[itemId]
        its == [db.items EXCEPT ![itemId].picked_up = TRUE]
        rs == [db.rides EXCEPT ![item.ride_request_id].status = "in_progress",
                               ![item.ride_request_id].rider_confirmed = TRUE]
        remainingPickups == {i \in ItemsOf(its, item.batch_id) : ~its[i].picked_up}
    IN [db EXCEPT !.items = its, !.rides = rs,
                  !.batches = IF remainingPickups = {}
                              THEN [db.batches EXCEPT ![item.batch_id].status = "in_progress"]
                              ELSE db.batches]

\* handlePickupComplete -> markPickupComplete
MarkPickupComplete(itemId) ==
    /\ itemId \in ItemIds
    /\ Commit(markPickupComplete(DB, itemId))
    /\ Record("markPickupComplete", TRUE, 0)
    /\ UNCHANGED <<penalties, now, calls, cooldownStatus>>

\* mutant: the batch and its rides are completed but the driver is not freed
completeBatch_KeepsDriver(db, batchId, t) ==
    LET members == {db.items[i].ride_request_id : i \in ItemsOf(db.items, batchId)}
    IN [db EXCEPT
          !.batches[batchId].status = "completed",
          !.rides = [r \in 1..Len(db.rides) |->
                        IF r \in members
                        THEN [db.rides[r] EXCEPT !.status = "completed",
                                                 !.completion_timestamp = t]
                        ELSE db.rides[r]]]

\* mutant: the rides of the batch are completed without a completion time
completeBatch_NoStamp(db, batchId, t) ==
    LET members == {db.items[i].ride_request_id : i \in ItemsOf(db.items, batchId)}
        driverId == db.batches[batchId].driver_id
    IN [db EXCEPT
          !.batches[batchId].status = "completed",
          !.rides = [r \in 1..Len(db.rides) |->
                        IF r \in members
                        THEN [db.rides[r] EXCEPT !.status = "completed"]
                        ELSE db.rides[r]],
          !.drivers = IF driverId # Null
                      THEN [db.drivers EXCEPT ![driverId].current_status = "available",
                                              ![driverId].current_passenger_load = 0]
                      ELSE db.drivers]

\* completeBatch
completeBatch(db, batchId, t) ==
    LET members == {db.items[i].ride_request_id : i \in ItemsOf(db.items, batchId)}
        driverId == db.batches[batchId].driver_id
    IN [db EXCEPT
          !.batches[batchId].status = "completed",
          !.rides = [r \in 1..Len(db.rides) |->
                        IF r \in members
                        THEN [db.rides[r] EXCEPT !.status = "completed",
                                                 !.completion_timestamp = t]
                        ELSE db.rides[r]],
          !.drivers = IF driverId # Null
                      THEN [db.drivers EXCEPT ![driverId].current_status = "available",
                                              ![driverId].current_passenger_load = 0]
                      ELSE db.drivers]

\* handleCompleteBatch -> completeBatch
CompleteBatch(batchId) ==
    /\ batchId \in BatchIds
    /\ Commit(completeBatch(DB, batchId, now))
    /\ Record("completeBatch", TRUE, 0)
    /\ UNCHANGED <<penalties, now, calls, cooldownStatus>>

\* ------------------------------------------------------- safety / no-show
\* handleConfirmPresence -> confirmRiderPresence: an update guarded by
\* status = arrived, which reports success whether or not a row matched
\* mutant: the update is filtered by id alone
confirmRiderPresence_AnyStatus(rs, rideId) ==
    [rides |-> [rs EXCEPT ![rideId].rider_confirmed = TRUE,
                          ![rideId].status = "in_progress"],
     success |-> TRUE]

\* confirmRiderPresence: [rides, success]
confirmRiderPresence(rs, rideId) ==
    [rides |-> IF rs[rideId].status = "arrived"
               THEN [rs EXCEPT ![rideId].rider_confirmed = TRUE,
                               ![rideId].status = "in_progress"]
               ELSE rs,
     success |-> TRUE]

ConfirmRiderPresence(rideId) ==
    /\ rideId \in RideIds
    /\ LET res == confirmRiderPresence(rides, rideId)
       IN /\ rides' = res.rides
          /\ Record("confirmRiderPresence", res.success, 0)
    /\ UNCHANGED <<drivers, batches, items, penalties, now, calls, cooldownStatus>>

\* mutant: a deadline that falls on this very moment counts as passed
getExpiredNoShowRides_Inclusive(rs, t) ==
    {r \in 1..Len(rs) : /\ rs[r].status = "arrived"
                        /\ rs[r].rider_confirmed = FALSE
                        /\ rs[r].arrival_deadline_timestamp # NoTime
                        /\ rs[r].arrival_deadline_timestamp <= t}

getExpiredNoShowRides(rs, t) ==
    {r \in 1..Len(rs) : /\ rs[r].status = "arrived"
                        /\ rs[r].rider_confirmed = FALSE
                        /\ rs[r].arrival_deadline_timestamp # NoTime
                        /\ rs[r].arrival_deadline_timestamp < t}

\* mutant: the count is not reset when the cooldown is applied
incrementNoShowCount_KeepsCount(pen, h, t) ==
    IF pen[h].present
    THEN LET newCount == pen[h].no_show_count + 1
         IN IF newCount >= NO_SHOW_THRESHOLD
            THEN [pen EXCEPT ![h].no_show_count = newCount,
                             ![h].cooldown_until = t + COOLDOWN_MINUTES]
            ELSE [pen EXCEPT ![h].no_show_count = newCount]
    ELSE [pen EXCEPT ![h] = [present |-> TRUE, no_show_count |-> 1, cooldown_until |-> NoTime]]

incrementNoShowCount(pen, h, t) ==
    IF pen[h].present
    THEN LET newCount == pen[h].no_show_count + 1
         IN IF newCount >= NO_SHOW_THRESHOLD
            THEN [pen EXCEPT ![h].no_show_count = 0, ![h].cooldown_until = t + COOLDOWN_MINUTES]
            ELSE [pen EXCEPT ![h].no_show_count = newCount]
    ELSE [pen EXCEPT ![h] = [present |-> TRUE, no_show_count |-> 1, cooldown_until |-> NoTime]]

\* mutant: the driver is left as it was
processNoShow_KeepsDriver(st, rideId, riderIdentifierHash, driverId, t) ==
    [rides |-> [st.rides EXCEPT ![rideId].status = "no_show"],
     drivers |-> st.drivers,
     penalties |-> IF riderIdentifierHash # NoHash
                   THEN incrementNoShowCount(st.penalties, riderIdentifierHash, t)
                   ELSE st.penalties]

\* processNoShow: [rides, drivers, penalties]
processNoShow(st, rideId, riderIdentifierHash, driverId, t) ==
    [rides |-> [st.rides EXCEPT ![rideId].status = "no_show"],
     drivers |-> IF driverId # Null
                 THEN [st.drivers EXCEPT ![driverId].current_status = "available"]
                 ELSE st.drivers,
     penalties |-> IF riderIdentifierHash # NoHash
                   THEN incrementNoShowCount(st.penalties, riderIdentifierHash, t)
                   ELSE st.penalties]

\* The loop of the sweep endpoint over the expired rides, in id order
RECURSIVE sweepLoop(_, _, _)
sweepLoop(st, expired, t) ==
    IF expired = {} THEN st
    ELSE LET r == CHOOSE r \in expired : \A q \in expired : r <= q
         IN sweepLoop(processNoShow(st, r, st.rides[r].rider_identifier_hash,
                                    st.rides[r].assigned_driver_id, t),
                      expired \ {r}, t)

\* GET /api/cron/process-noshow
ProcessNoShowSweep ==
    /\ LET expired == getExpiredNoShowRides(rides, now)
           st == sweepLoop([rides |-> rides, drivers |-> drivers, penalties |-> penalties],
                           expired, now)
       IN /\ rides' = st.rides
          /\ drivers' = st.drivers
          /\ penalties' = st.penalties
          /\ Record("processNoShow", TRUE, Cardinality(expired))
    /\ UNCHANGED <<batches, items, now, calls, cooldownStatus>>

\* ------------------------------------- dispatch, one storage call per step
\* The same functions with every awaited storage call a step of its own, so
\* that the calls of two invocations interleave.  Reads of columns that never
\* change after the row is inserted (a ride's pickup point and passenger
\* count) are taken together with the call that follows them.
Goto(c, pc) == [calls EXCEPT ![c].pc = pc]

\* smartDispatch, first await: getOldestWaitingRide
Smart_getOldestWaitingRide(c) ==
    /\ calls[c].pc = "idle"
    /\ LET ride == getOldestWaitingRide(rides)
       IN calls' = IF ride = Null THEN Goto(c, "returned")
                   ELSE [calls EXCEPT ![c].pc = "findNearestDriver", ![c].ride = ride]
    /\ UNCHANGED <<rides, drivers, batches, items, penalties, now, last, cooldownStatus>>

\* smartDispatch, second await: findNearestDriver
Smart_findNearestDriver(c) ==
    /\ calls[c].pc = "findNearestDriver"
    /\ LET ride == rides[calls[c].ride]
           driver == findNearestDriver(drivers, ride.pickup_lat, ride.pickup_lng)
       IN calls' = IF driver = Null THEN Goto(c, "returned")
                   ELSE [calls EXCEPT ![c].pc = "assign_select", ![c].driver = driver]
    /\ UNCHANGED <<rides, drivers, batches, items, penalties, now, last, cooldownStatus>>

\* assignDriverToRide: the select of the ride's status and its validation
Assign_selectRide(c) ==
    /\ calls[c].pc = "assign_select"
    /\ calls' = IF ~isValidTransition(rides[calls[c].ride].status, "assigned")
                THEN Goto(c, "returned")
                ELSE Goto(c, "assign_updateRide")
    /\ UNCHANGED <<rides, drivers, batches, items, penalties, now, last, cooldownStatus>>

\* assignDriverToRide: the update of the ride row, filtered by id alone
Assign_updateRide(c) ==
    /\ calls[c].pc = "assign_updateRide"
    /\ rides' = [rides EXCEPT ![calls[c].ride].assigned_driver_id = calls[c].driver,
                              ![calls[c].ride].status = "assigned"]
    /\ calls' = Goto(c, "assign_updateDriver")
    /\ UNCHANGED <<drivers, batches, items, penalties, now, last, cooldownStatus>>

\* assignDriverToRide: the update of the driver row, filtered by id alone;
\* smartDispatch then reports the ride as assigned
Assign_updateDriver(c) ==
    /\ calls[c].pc = "assign_updateDriver"
    /\ drivers' = [drivers EXCEPT ![calls[c].driver].current_status = "assigned"]
    /\ calls' = [calls EXCEPT ![c].pc = "returned", ![c].took = {calls[c].ride}]
    /\ UNCHANGED <<rides, batches, items, penalties, now, last, cooldownStatus>>

\* batchDispatch: on to the next cluster of the list read at the start
NextCluster(c, cs) ==
    IF cs[c].k + 1 > Len(cs[c].clusters)
    THEN [cs EXCEPT ![c].pc = "returned"]
    ELSE [cs EXCEPT ![c].pc = "cluster", ![c].k = cs[c].k + 1]

\* batchDispatch, first await: getWaitingRidesByCluster
Batch_getWaitingRidesByCluster(c) ==
    /\ calls[c].pc = "idle"
    /\ LET clusters == getWaitingRidesByCluster(rides)
       IN calls' = IF clusters = <<>> THEN Goto(c, "returned")
                   ELSE [calls EXCEPT ![c].pc = "cluster", ![c].clusters = clusters, ![c].k = 1]
    /\ UNCHANGED <<rides, drivers, batches, items, penalties, now, last, cooldownStatus>>

\* batchDispatch, per cluster: findAvailableDriversWithCapacity, the choice of
\* the nearest driver and of the rides that fit
Batch_findDrivers(c) ==
    /\ calls[c].pc = "cluster"
    /\ LET cluster == calls[c].clusters[calls[c].k]
           cands == findAvailableDriversWithCapacity(drivers,
                        Min(cluster.total_passengers, MAX_PER_TRIP))
       IN calls' =
            IF cands = {} THEN NextCluster(c, calls)
            ELSE LET nearestDriver == pickBatchDriver(drivers, cands, cluster)
                     driverCapacity == FreeCapacity(drivers[nearestDriver])
                     ridesToBatch == selectRides(rides, cluster.ride_ids, 1, 0, driverCapacity)
                 IN IF ridesToBatch = <<>> THEN NextCluster(c, calls)
                    ELSE [calls EXCEPT ![c].pc = "batch_select",
                                       ![c].driver = nearestDriver,
                                       ![c].order = ridesToBatch]
    /\ UNCHANGED <<rides, drivers, batches, items, penalties, now, last, cooldownStatus>>

\* createBatch: the selects of the rides and of the driver's position
Batch_selectDriver(c) ==
    /\ calls[c].pc = "batch_select"
    /\ LET driver == drivers[calls[c].driver]
       IN calls' =
            IF ~Truthy(driver.current_lat) \/ ~Truthy(driver.current_lng)
            THEN NextCluster(c, calls)
            ELSE [calls EXCEPT
                    ![c].pc = "batch_insertBatch",
                    ![c].total = sumPassengerCount(rides, calls[c].order),
                    ![c].order = calculatePickupOrder(rides, driver.current_lat,
                                                      driver.current_lng, calls[c].order)]
    /\ UNCHANGED <<rides, drivers, batches, items, penalties, now, last, cooldownStatus>>

\* createBatch: the insert of the batch row
Batch_insertBatch(c) ==
    /\ calls[c].pc = "batch_insertBatch"
    /\ batches' = Append(batches, [driver_id |-> calls[c].driver, status |-> "pending",
                                   total_passengers |-> calls[c].total])
    /\ calls' = [calls EXCEPT ![c].pc = "batch_insertItems", ![c].batch = Len(batches) + 1]
    /\ UNCHANGED <<rides, drivers, items, penalties, now, last, cooldownStatus>>

\* createBatch: the insert of the batch items
Batch_insertItems(c) ==
    /\ calls[c].pc = "batch_insertItems"
    /\ items' = items \o [k \in 1..Len(calls[c].order) |->
                             [batch_id |-> calls[c].batch,
                              ride_request_id |-> calls[c].order[k],
                              pickup_order_index |-> k - 1, picked_up |-> FALSE]]
    /\ calls' = [calls EXCEPT ![c].pc = "batch_updateRide", ![c].idx = 1]
    /\ UNCHANGED <<rides, drivers, batches, penalties, now, last, cooldownStatus>>

\* createBatch: the update of one ride row, filtered by id alone
Batch_updateRide(c) ==
    /\ calls[c].pc = "batch_updateRide"
    /\ LET k == calls[c].idx
           r == calls[c].order[k]
       IN /\ rides' = [rides EXCEPT ![r].batch_id = calls[c].batch,
                                    ![r].pickup_sequence_index = k - 1,
                                    ![r].assigned_driver_id = calls[c].driver,
                                    ![r].status = "assigned"]
          /\ calls' = IF k = Len(calls[c].order)
                      THEN Goto(c, "batch_updateDriver")
                      ELSE [calls EXCEPT ![c].idx = k + 1]
    /\ UNCHANGED <<drivers, batches, items, penalties, now, last, cooldownStatus>>

\* createBatch: the update of the driver row, filtered by id alone;
\* batchDispatch then counts the rides of the batch as assigned
Batch_updateDriver(c) ==
    /\ calls[c].pc = "batch_updateDriver"
    /\ drivers' = [drivers EXCEPT
                     ![calls[c].driver].current_status = "assigned",
                     ![calls[c].driver].current_passenger_load = calls[c].total]
    /\ calls' = NextCluster(c, [calls EXCEPT
                    ![c].took = @ \cup {calls[c].order[k] : k \in 1..Len(calls[c].order)}])
    /\ UNCHANGED <<rides, batches, items, penalties, now, last, cooldownStatus>>

\* ------------------------------------------------------- specifications
\* The values the pages hand to the handlers
NearLats == {1}
PassengerCounts == MIN_PASSENGERS..MAX_PASSENGERS
SingleRider == {MIN_PASSENGERS}
\* the statuses the driver and admin pages ask transitionRideStatus for
PageTargets == {"arrived", "in_progress", "completed", "cancelled", "no_show"}

\* The engine as the pages drive it, one handler at a time, within one
\* minute: riders of every party size, all at one pickup point.
Next ==
    \/ \E lat \in NearLats, lng \in Lngs, pc \in PassengerCounts, h \in Hashes :
            CreateRideRequest(lat, lng, pc, h)
    \/ \E d \in Drivers : UpdateDriverStatus(d)
    \/ \E d \in Drivers, lat \in NearLats, lng \in Lngs : UpdateDriverLocation(d, lat, lng)
    \/ \E r \in RideIds, d \in Drivers : AssignDriverToRide(r, d)
    \/ SmartDispatch
    \/ DispatchAllRides
    \/ \E r \in RideIds, s \in PageTargets, d \in Drivers \cup {Null} : TransitionRideStatus(r, s, d)
    \/ BatchDispatch
    \/ \E i \in ItemIds : MarkPickupComplete(i)
    \/ \E b \in BatchIds : CompleteBatch(b)

Spec == Init /\ [][Next]_vars

\* The ride state machine as its callers can drive it: transitionRideStatus
\* asked for every status, manual and automatic assignment, results observed.
NextMachine ==
    \/ \E lat \in NearLats, lng \in Lngs, pc \in SingleRider, h \in Hashes :
            CreateRideRequest(lat, lng, pc, h)
    \/ \E d \in Drivers : UpdateDriverStatus(d)
    \/ \E d \in Drivers, lat \in NearLats, lng \in Lngs : UpdateDriverLocation(d, lat, lng)
    \/ Tick
    \/ \E r \in RideIds, d \in Drivers : AssignDriverToRide(r, d)
    \/ SmartDispatch
    \/ \E r \in RideIds, s \in RideStatus, d \in Drivers \cup {Null} : TransitionRideStatus(r, s, d)

SpecMachine == InitObserved /\ [][NextMachine]_vars

\* The dispatchers, results observed: drivers anywhere on the meridian, the
\* equator included; rides leave the queue by dispatch or cancellation.
NextDispatch ==
    \/ \E lat \in PickupLats, lng \in Lngs, pc \in PassengerCounts, h \in Hashes :
            CreateRideRequest(lat, lng, pc, h)
    \/ \E d \in Drivers : UpdateDriverStatus(d)
    \/ \E d \in Drivers, lat \in DriverLats, lng \in Lngs : UpdateDriverLocation(d, lat, lng)
    \/ SmartDispatch
    \/ DispatchAllRides
    \/ BatchDispatch
    \/ \E r \in RideIds : TransitionRideStatus(r, "cancelled", Null)
    \/ \E b \in BatchIds : CompleteBatch(b)

SpecDispatch == InitObserved /\ [][NextDispatch]_vars

\* Two dispatch invocations on one event with their storage calls
\* interleaved, while riders ask for rides and drivers come online.
NextConc ==
    \/ \E lat \in NearLats, lng \in Lngs, pc \in SingleRider, h \in Hashes :
            CreateRideRequest(lat, lng, pc, h)
    \/ \E d \in Drivers : UpdateDriverStatus(d)
    \/ \E d \in Drivers, lat \in NearLats, lng \in Lngs : UpdateDriverLocation(d, lat, lng)
    \/ \E c \in Calls : Smart_getOldestWaitingRide(c)
    \/ \E c \in Calls : Smart_findNearestDriver(c)
    \/ \E c \in Calls : Assign_selectRide(c)
    \/ \E c \in Calls : Assign_updateRide(c)
    \/ \E c \in Calls : Assign_updateDriver(c)
    \/ \E c \in Calls : Batch_getWaitingRidesByCluster(c)
    \/ \E c \in Calls : Batch_findDrivers(c)
    \/ \E c \in Calls : Batch_selectDriver(c)
    \/ \E c \in Calls : Batch_insertBatch(c)
    \/ \E c \in Calls : Batch_insertItems(c)
    \/ \E c \in Calls : Batch_updateRide(c)
    \/ \E c \in Calls : Batch_updateDriver(c)

SpecConc == Init /\ [][NextConc]_vars

\* The batch life cycle alone, with two pickup points that share a grid cell
\* and drivers on either side of them.
ClusterLats == {MaxCoord, MaxCoord + 1}
SideLats == {1, MaxCoord + 2}

NextBatch ==
    \/ \E lat \in ClusterLats, lng \in Lngs, pc \in PassengerCounts, h \in Hashes :
            CreateRideRequest(lat, lng, pc, h)
    \/ \E d \in Drivers : UpdateDriverStatus(d)
    \/ \E d \in Drivers, lat \in SideLats, lng \in Lngs : UpdateDriverLocation(d, lat, lng)
    \/ BatchDispatch
    \/ \E i \in ItemIds : MarkPickupComplete(i)
    \/ \E b \in BatchIds : CompleteBatch(b)

SpecBatch == Init /\ [][NextBatch]_vars

\* Batch creation with a storage that may reject the item inserts, results
\* observed
NextBatchError ==
    \/ \E lat \in ClusterLats, lng \in Lngs, pc \in PassengerCounts, h \in Hashes :
            CreateRideRequest(lat, lng, pc, h)
    \/ \E d \in Drivers : UpdateDriverStatus(d)
    \/ \E d \in Drivers, lat \in SideLats, lng \in Lngs : UpdateDriverLocation(d, lat, lng)
    \/ BatchDispatch
    \/ BatchDispatchItemsError

SpecBatchError == InitObserved /\ [][NextBatchError]_vars

\* The no-show timer and the cooldown, with a clock that runs past the end of
\* a cooldown: single riders under one name, the steps
\* of time as long as the no-show timer so that a deadline is met exactly.
SafetyTargets == {"arrived", "completed", "cancelled"}

Advance(minutes) ==
    /\ now + minutes <= MaxClock
    /\ now' = now + minutes
    /\ UNCHANGED <<rides, drivers, batches, items, penalties, last, calls, cooldownStatus>>

NextSafety ==
    \/ \E lat \in NearLats, lng \in Lngs, pc \in SingleRider, h \in Hashes \cup {NoHash} :
            CreateRideRequest(lat, lng, pc, h)
    \/ \E h \in Hashes : CheckRiderStatus(h)
    \/ \E d \in Drivers : UpdateDriverStatus(d)
    \/ \E d \in Drivers, lat \in NearLats, lng \in Lngs : UpdateDriverLocation(d, lat, lng)
    \/ SmartDispatch
    \/ \E r \in RideIds, s \in SafetyTargets : TransitionRideStatus(r, s, Null)
    \/ \E r \in RideIds : ConfirmRiderPresence(r)
    \/ ProcessNoShowSweep
    \/ Advance(NO_SHOW_TIMER_MINUTES)

SpecSafety == Init /\ [][NextSafety]_vars

\* ------------------------------------------------------ removing a driver
\* what is left of a driver's row once it has been deleted: nothing that an
\* operation selecting drivers by status or location would pick
DeletedDriver ==
    [is_online |-> FALSE, current_status |-> "deleted",
     current_lat |-> NoCoord, current_lng |-> NoCoord,
     max_capacity |-> 0, current_passenger_load |-> 0]

\* ON DELETE SET NULL on ride_requests.assigned_driver_id and on
\* ride_batches.driver_id
nullDriverRefs(rows, field, driverId) ==
    [i \in 1..Len(rows) |->
        IF rows[i][field] = driverId THEN [rows[i] EXCEPT ![field] = Null] ELSE rows[i]]

\* removeDriverFromEvent: delete().eq("id", driverId), whatever the row holds
removeDriverFromEvent(db, driverId) ==
    [db EXCEPT !.drivers[driverId] = DeletedDriver,
               !.rides = nullDriverRefs(db.rides, "assigned_driver_id", driverId),
               !.batches = nullDriverRefs(db.batches, "driver_id", driverId)]

\* handleRemoveDriver: the admin page shows the button on the rows whose
\* status is offline; the page's list is taken to be up to date
HandleRemoveDriver(d) ==
    /\ drivers[d] # DeletedDriver
    /\ drivers[d].current_status = "offline"
    /\ LET db == removeDriverFromEvent(DB, d)
       IN /\ drivers' = db.drivers
          /\ rides' = db.rides
          /\ batches' = db.batches
    /\ Record("none", TRUE, 0)
    /\ UNCHANGED <<items, penalties, now, calls, cooldownStatus>>

\* handleSignOut: a driver that is not offline is set offline, assigned or not
HandleSignOut(d) ==
    /\ drivers[d] # DeletedDriver
    /\ drivers[d].current_status # "offline"
    /\ drivers' = updateDriverStatus(drivers, d, "offline")
    /\ Record("none", TRUE, 0)
    /\ UNCHANGED <<rides, batches, items, penalties, now, calls, cooldownStatus>>

\* The drivers of an event coming and going: the driver page's toggle and
\* sign-out, the admin page's removal, single and batch dispatch.
NextRemove ==
    \/ \E lat \in NearLats, lng \in Lngs, pc \in SingleRider, h \in Hashes :
            CreateRideRequest(lat, lng, pc, h)
    \/ \E d \in Drivers : drivers[d] # DeletedDriver /\ UpdateDriverStatus(d)
    \/ \E d \in Drivers, lat \in NearLats, lng \in Lngs :
            drivers[d] # DeletedDriver /\ UpdateDriverLocation(d, lat, lng)
    \/ \E d \in Drivers : HandleSignOut(d)
    \/ \E d \in Drivers : HandleRemoveDriver(d)
    \/ SmartDispatch
    \/ BatchDispatch
    \/ \E r \in RideIds, s \in SafetyTargets : TransitionRideStatus(r, s, Null)

SpecRemove == Init /\ [][NextRemove]_vars

\* ------------------------------------- the sweep, one awaited call per step
\* mutant: the query does not select assigned_driver_id
RECURSIVE expiredRideRows_NoDriver(_, _)
expiredRideRows_NoDriver(rs, expired) ==
    IF expired = {} THEN <<>>
    ELSE LET r == CHOOSE r \in expired : \A q \in expired : r <= q
         IN <<[ride_id |-> r,
               rider_identifier_hash |-> rs[r].rider_identifier_hash,
               assigned_driver_id |-> Null]>>
            \o expiredRideRows_NoDriver(rs, expired \ {r})

\* The rows getExpiredNoShowRides hands to the loop of the endpoint, in id
\* order: what each ride held when the query ran
RECURSIVE expiredRideRows(_, _)
expiredRideRows(rs, expired) ==
    IF expired = {} THEN <<>>
    ELSE LET r == CHOOSE r \in expired : \A q \in expired : r <= q
         IN <<[ride_id |-> r,
               rider_identifier_hash |-> rs[r].rider_identifier_hash,
               assigned_driver_id |-> rs[r].assigned_driver_id]>>
            \o expiredRideRows(rs, expired \ {r})

\* GET /api/cron/process-noshow, first await: getExpiredNoShowRides.  With
\* nothing expired the endpoint answers at once and no state changes.
Sweep_getExpiredNoShowRides(c) ==
    /\ calls[c].pc = "idle"
    /\ LET expired == getExpiredNoShowRides(rides, now)
       IN /\ expired # {}
          /\ calls' = [calls EXCEPT ![c].pc = "processNoShow",
                                    ![c].order = expiredRideRows(rides, expired),
                                    ![c].idx = 1]
    /\ UNCHANGED <<rides, drivers, batches, items, penalties, now, last, cooldownStatus>>

\* the loop of the endpoint, one turn: await processNoShow for the next row
\* of the list that was fetched
Sweep_processNoShow(c) ==
    /\ calls[c].pc = "processNoShow"
    /\ LET row == calls[c].order[calls[c].idx]
           st == processNoShow([rides |-> rides, drivers |-> drivers, penalties |-> penalties],
                               row.ride_id, row.rider_identifier_hash,
                               row.assigned_driver_id, now)
       IN /\ rides' = st.rides
          /\ drivers' = st.drivers
          /\ penalties' = st.penalties
    /\ calls' = IF calls[c].idx = Len(calls[c].order) THEN [calls EXCEPT ![c] = IdleCall]
                ELSE [calls EXCEPT ![c].idx = calls[c].idx + 1]
    /\ UNCHANGED <<batches, items, now, last, cooldownStatus>>

\* The sweep running beside the riders and drivers it is about: rides reach
\* arrived, the deadline passes, riders confirm while a sweep is under way.
SweepTargets == {"arrived", "completed"}

NextSweep ==
    \/ \E lat \in NearLats, lng \in Lngs, pc \in SingleRider, h \in Hashes :
            CreateRideRequest(lat, lng, pc, h)
    \/ \E d \in Drivers : UpdateDriverStatus(d)
    \/ \E d \in Drivers, lat \in NearLats, lng \in Lngs : UpdateDriverLocation(d, lat, lng)
    \/ SmartDispatch
    \/ \E r \in RideIds, s \in SweepTargets : TransitionRideStatus(r, s, Null)
    \/ \E r \in RideIds : ConfirmRiderPresence(r)
    \/ Tick
    \/ \E c \in Calls : Sweep_getExpiredNoShowRides(c)
    \/ \E c \in Calls : Sweep_processNoShow(c)

SpecSweep == Init /\ [][NextSweep]_vars

\* The same with the endpoint invoked again and again: a sweep is started
\* whenever one stays possible, and a sweep that has its list goes through it
SweepFairness ==
    /\ WF_vars(\E c \in Calls : Sweep_getExpiredNoShowRides(c))
    /\ \A c \in Calls : WF_vars(Sweep_processNoShow(c))

SpecSweepFair == Init /\ [][NextSweep]_vars /\ SweepFairness

\* ------------------------------------------------ a queue of three rides
\* Batch dispatch called again and again over a queue long enough to hold a
\* ride that has left its batch and two rides that wait together: every
\* pickup at one point, parties of one and of three.
MaxQueue == 3
QueueLats == {MaxCoord}
QueueParties == {MIN_PASSENGERS, MAX_PASSENGERS - 1}

\* handleRideSubmit -> createRideRequest, the queue holding up to MaxQueue
CreateQueuedRide(lat, lng, pc, h) ==
    /\ Len(rides) < MaxQueue
    /\ LET kept == IF h = NoHash THEN NoCooldown ELSE cooldownStatus[h]
       IN rides' = handleRideSubmit(rides, kept, lat, lng, pc, h)
    /\ rides' # rides
    /\ Record("none", TRUE, 0)
    /\ UNCHANGED <<drivers, batches, items, penalties, now, calls, cooldownStatus>>

NextQueue ==
    \/ \E lat \in QueueLats, lng \in Lngs, pc \in QueueParties, h \in Hashes :
            CreateQueuedRide(lat, lng, pc, h)
    \/ \E d \in Drivers : UpdateDriverStatus(d)
    \/ \E d \in Drivers, lat \in NearLats, lng \in Lngs : UpdateDriverLocation(d, lat, lng)
    \/ BatchDispatch
    \/ \E r \in RideIds : TransitionRideStatus(r, "cancelled", Null)

\* batchDispatch has something to write: where it has not, calling it again
\* and again changes nothing
BatchDispatchEnabled == batchDispatch(DB, FALSE).db # DB

SpecQueue == Init /\ [][NextQueue]_vars

\* ------------------------------------------------- the ways to completion
\* Rides brought to completed one by one by their driver or together by
\* completeBatch, with a clock between arrival and completion.
CompletionTargets == {"arrived", "in_progress", "completed"}

NextCompletion ==
    \/ \E lat \in NearLats, lng \in Lngs, pc \in SingleRider, h \in Hashes :
            CreateRideRequest(lat, lng, pc, h)
    \/ \E d \in Drivers : UpdateDriverStatus(d)
    \/ \E d \in Drivers, lat \in NearLats, lng \in Lngs : UpdateDriverLocation(d, lat, lng)
    \/ Tick
    \/ SmartDispatch
    \/ BatchDispatch
    \/ \E r \in RideIds, s \in CompletionTargets : TransitionRideStatus(r, s, Null)
    \/ \E i \in ItemIds : MarkPickupComplete(i)
    \/ \E b \in BatchIds : CompleteBatch(b)

SpecCompletion == Init /\ [][NextCompletion]_vars

\* ------------------------------------------- a failing driver write
\* Manual and automatic assignment, results observed, with and without the
\* storage rejecting the update of the driver row.
NextAssignError ==
    \/ \E lat \in NearLats, lng \in Lngs, pc \in SingleRider, h \in Hashes :
            CreateRideRequest(lat, lng, pc, h)
    \/ \E d \in Drivers : UpdateDriverStatus(d)
    \/ \E d \in Drivers, lat \in NearLats, lng \in Lngs : UpdateDriverLocation(d, lat, lng)
    \/ \E r \in RideIds, d \in Drivers : AssignDriverToRide(r, d)
    \/ SmartDispatch
    \/ DispatchAllRides
    \/ \E r \in RideIds, d \in Drivers : AssignDriverToRideDriverError(r, d)
    \/ SmartDispatchDriverError
    \/ \E n \in 1..MaxRides : DispatchAllRidesDriverError(n)

SpecAssignError == InitObserved /\ [][NextAssignError]_vars

\* ------------------------------------------------------------------ claims
\* The transition table as the specification prints it
TransitionTable ==
    {<<"waiting", "assigned">>, <<"waiting", "cancelled">>,
     <<"assigned", "arrived">>, <<"assigned", "cancelled">>, <<"assigned", "no_show">>,
     <<"arrived", "in_progress">>, <<"arrived", "cancelled">>, <<"arrived", "no_show">>,
     <<"in_progress", "completed">>, <<"in_progress", "cancelled">>}

\* the statuses the specification calls active and terminal
ActiveStatus == {"assigned", "arrived", "in_progress"}

TerminalStatus == {"completed", "cancelled", "no_show"}

\* C1: in every reachable state, a call of transitionRideStatus for a
\* (current, requested) pair that is not an edge of the table reports a
\* failure and leaves every ride row and every driver row as it was; so does
\* a call of assignDriverToRide for a ride that is not waiting.
C1_InvalidRequestChangesNothing ==
    /\ \A r \in RideIds, s \in RideStatus, d \in Drivers \cup {Null} :
            <<rides[r].status, s>> \notin TransitionTable
                => LET res == transitionRideStatus(DB, r, s, d, now)
                   IN ~res.ok /\ res.db.rides = rides /\ res.db.drivers = drivers
    /\ \A r \in RideIds, d \in Drivers :
            rides[r].status # "waiting"
                => LET res == assignDriverToRide(DB, r, d, Null, FALSE)
                   IN ~res.ok /\ res.db.rides = rides /\ res.db.drivers = drivers

\* a refused transition, with a finished ride and a driver at work on record
C1_Witness ==
    /\ last = Result("transitionRideStatus", FALSE, 0)
    /\ \E r \in RideIds : rides[r].status = "completed"
    /\ \E d \in Drivers : drivers[d].current_status = "assigned"

\* C2: every change of a ride's stored status, by whatever operation, is an
\* edge of the transition table.
C2_StatusChangesFollowTable ==
    [][\A r \in RideIds :
            rides'[r].status # rides[r].status
                => <<rides[r].status, rides'[r].status>> \in TransitionTable]_vars

\* C3: a ride whose status is completed, cancelled or no_show keeps that
\* status in every later step.
C3_TerminalStatusIsFinal ==
    [][\A r \in RideIds :
            rides[r].status \in TerminalStatus => rides'[r].status = rides[r].status]_vars

\* the active non-batched rides and the active batches that hold driver d
SoloRidesOf(d) ==
    {r \in RideIds : /\ rides[r].assigned_driver_id = d
                     /\ rides[r].status \in ActiveStatus
                     /\ rides[r].batch_id = Null}

ActiveBatchesOf(d) ==
    {b \in BatchIds : batches[b].driver_id = d /\ batches[b].status \in {"pending", "in_progress"}}

\* C4: under serialized operations every driver is held by at most one active
\* assignment: one active non-batched ride or one pending or in_progress
\* batch, never both.
C4_OneActiveAssignmentPerDriver ==
    \A d \in Drivers : Cardinality(SoloRidesOf(d)) + Cardinality(ActiveBatchesOf(d)) <= 1

\* C5: with the storage calls of two dispatch invocations interleaved, once
\* both have returned no driver holds two active rides or batches and no ride
\* has been reported as assigned by both invocations.
C5_NoDoubleAssignment ==
    (\A c \in Calls : calls[c].pc \in {"idle", "returned"}) =>
        /\ \A d \in Drivers : Cardinality(SoloRidesOf(d)) + Cardinality(ActiveBatchesOf(d)) <= 1
        /\ \A c, e \in Calls : c # e => calls[c].took \cap calls[e].took = {}

\* the drivers the claims call online, available and located
ReadyDrivers ==
    {d \in Drivers : /\ drivers[d].is_online
                     /\ drivers[d].current_status = "available"
                     /\ drivers[d].current_lat # NoCoord
                     /\ drivers[d].current_lng # NoCoord}

WaitingRides == {r \in RideIds : rides[r].status = "waiting"}

\* C6: from any state with N waiting rides and M online, available, located
\* drivers, dispatchAllRides returns, reports min(N, M), leaves exactly that
\* many more rides assigned, each to a driver of its own, and a second call
\* right after it reports 0.
C6_DispatchAllAssignsMin ==
    LET res == dispatchAllRides(DB, NoFailure)
        k == Min(Cardinality(WaitingRides), Cardinality(ReadyDrivers))
        newly == {r \in WaitingRides : res.db.rides[r].status = "assigned"}
        again == dispatchAllRides(res.db, NoFailure)
    IN /\ res.returned
       /\ res.assignedCount = k
       /\ Cardinality(newly) = k
       /\ \A r \in WaitingRides \ newly : res.db.rides[r].status = "waiting"
       /\ \A r \in newly : res.db.rides[r].assigned_driver_id \in ReadyDrivers
       /\ \A r, q \in newly :
            r # q => res.db.rides[r].assigned_driver_id # res.db.rides[q].assigned_driver_id
       /\ again.returned /\ again.assignedCount = 0

\* the free capacity of a driver row, as the claims define it
FreeSeats(d) == drivers[d].max_capacity - drivers[d].current_passenger_load

\* nothing for the single-ride dispatchers to do; nothing for batchDispatch to
\* do: no ready driver has room for even one of the waiting parties
NothingToDispatch == WaitingRides = {} \/ ReadyDrivers = {}

NothingToBatch ==
    \A r \in WaitingRides, d \in ReadyDrivers : FreeSeats(d) < rides[r].passenger_count

\* C7: in every reachable state with no waiting ride or no online,
\* available, located driver (for batchDispatch: none with room enough),
\* smartDispatch, dispatchAllRides and batchDispatch report zero assignments
\* and leave every ride, driver, batch and batch-item row unchanged; the
\* state being the same, so does every further call.
C7_NothingToDoChangesNothing ==
    /\ NothingToDispatch =>
        /\ smartDispatch(DB, FALSE) = [db |-> DB, assigned |-> FALSE, ok |-> TRUE]
        /\ dispatchAllRides(DB, NoFailure) =
                [db |-> DB, assignedCount |-> 0, ok |-> TRUE, returned |-> TRUE]
    /\ NothingToBatch =>
        batchDispatch(DB, FALSE) = [db |-> DB, batchesCreated |-> 0, ridesAssigned |-> 0]

\* batchDispatch has just reported zero although a party is waiting and a
\* ready driver exists: the driver's free seats are too few
C7_Witness ==
    /\ last = Result("batchDispatch", TRUE, 0)
    /\ WaitingRides # {}
    /\ ReadyDrivers # {}
    /\ NothingToBatch

\* C8: a ride carries a driver id exactly when its status is assigned,
\* arrived or in_progress.
C8_DriverIdIffActive ==
    \A r \in RideIds :
        (rides[r].assigned_driver_id # Null) <=> (rides[r].status \in ActiveStatus)

MembersOf(b) == {items[i].ride_request_id : i \in ItemsOf(items, b)}

RECURSIVE SumPassengers(_)
SumPassengers(S) ==
    IF S = {} THEN 0
    ELSE LET r == CHOOSE r \in S : TRUE
         IN rides[r].passenger_count + SumPassengers(S \ {r})

\* C9: every batch that a step creates (batchDispatch alone creates batches)
\* has total_passengers equal to the sum of its member rides' passenger_count,
\* at most its driver's max_capacity and at most the free capacity
\* max_capacity - current_passenger_load the driver had when the batch was
\* created.
C9_BatchTotalWithinCapacity ==
    [][\A b \in (Len(batches) + 1)..Len(batches') :
            LET d == batches'[b].driver_id
            IN /\ batches'[b].total_passengers = SumPassengers(MembersOf(b))'
               /\ batches'[b].total_passengers <= drivers[d].max_capacity
               /\ batches'[b].total_passengers <= FreeSeats(d)]_vars

\* a batch of two parties that fills the car
C9_Witness ==
    \E b \in BatchIds :
        /\ Cardinality(MembersOf(b)) = 2
        /\ batches[b].total_passengers = drivers[batches[b].driver_id].max_capacity

\* C10: every driver's current_passenger_load is between 0 and its
\* max_capacity.
C10_LoadWithinCapacity ==
    \A d \in Drivers :
        /\ drivers[d].current_passenger_load >= 0
        /\ drivers[d].current_passenger_load <= drivers[d].max_capacity

\* a driver carrying a full car
C10_Witness ==
    \E d \in Drivers :
        /\ drivers[d].current_status = "assigned"
        /\ drivers[d].current_passenger_load = drivers[d].max_capacity

\* the ride that holds place n of batch b in the items table its
RideAtPlace(its, b, n) ==
    its[CHOOSE i \in ItemsOf(its, b) : its[i].pickup_order_index = n].ride_request_id

\* C11: when a step creates a batch for k rides, the batch has exactly k
\* items, one per ride, with pickup_order_index values exactly 0..k-1; each
\* ride's pickup_sequence_index is its item's index; every place is taken by a
\* ride nearest to the place before it (the driver's position for place 0)
\* among the rides not yet placed; and the cumulative ETA minutes never
\* decrease along the places, whatever the ETA source answers.
C11_BatchItemsInPickupOrder ==
    [][\A b \in (Len(batches) + 1)..Len(batches') :
        LET its == ItemsOf(items', b)
            batched == {r \in 1..Len(rides') : rides'[r].batch_id = b}
            k == Cardinality(batched)
            d == batches'[b].driver_id
            place(n) == RideAtPlace(items', b, n)
            fromLat(n) == IF n = 0 THEN drivers[d].current_lat ELSE rides[place(n - 1)].pickup_lat
            fromLng(n) == IF n = 0 THEN drivers[d].current_lng ELSE rides[place(n - 1)].pickup_lng
            far(n, r) == haversineDistance(fromLat(n), fromLng(n),
                                           rides[r].pickup_lat, rides[r].pickup_lng)
            order == [n \in 1..k |-> place(n - 1)]
        IN /\ k >= 1
           /\ Cardinality(its) = k
           /\ {items'[i].ride_request_id : i \in its} = batched
           /\ {items'[i].pickup_order_index : i \in its} = 0..(k - 1)
           /\ \A i \in its :
                rides'[items'[i].ride_request_id].pickup_sequence_index
                    = items'[i].pickup_order_index
           /\ \A n \in 0..(k - 1), m \in 0..(k - 1) :
                m >= n => far(n, place(n)) <= far(n, place(m))
           /\ \A google \in [1..k -> GoogleMinutes] :
                LET etas == pickupEtaMinutes(rides, drivers[d].current_lat,
                                             drivers[d].current_lng, order, 1, 0, google)
                IN \A n \in 1..(k - 1) : etas[n] <= etas[n + 1]]_vars

\* a batch of two rides whose pickup order is not the order of their requests
C11_Witness ==
    \E b \in BatchIds :
        /\ Cardinality(ItemsOf(items, b)) = 2
        /\ RideAtPlace(items, b, 0) > RideAtPlace(items, b, 1)

\* C12: a batch whose status is in_progress has every one of its items picked
\* up, and markPickupComplete changes a batch's status to in_progress exactly
\* when the item it marks was unpicked and every other item of the batch was
\* already picked up.
C12_InProgressIffLastPickup ==
    /\ \A b \in BatchIds :
          batches[b].status = "in_progress"
              => \A i \in ItemsOf(items, b) : items[i].picked_up
    /\ \A i \in ItemIds :
          LET b == items[i].batch_id
              after == markPickupComplete(DB, i)
              moved == /\ batches[b].status # "in_progress"
                       /\ after.batches[b].status = "in_progress"
              lastUnpicked == /\ ~items[i].picked_up
                              /\ \A j \in ItemsOf(items, b) \ {i} : items[j].picked_up
          IN moved <=> lastUnpicked

\* C13: a batch whose status is completed or cancelled keeps that status in
\* every later step, whatever markPickupComplete or completeBatch is called.
C13_TerminalBatchIsFinal ==
    [][\A b \in BatchIds :
            batches[b].status \in {"completed", "cancelled"}
                => batches'[b].status = batches[b].status]_vars

BatchRides(its, b) == {its[i].ride_request_id : i \in ItemsOf(its, b)}

\* C14: completeBatch on a batch whose member rides are all in_progress leaves
\* the batch completed, every member ride completed with a completion
\* timestamp, the batch's driver available with load 0, and every other
\* ride, driver and batch (and every batch item) as it was.
C14_CompleteBatchEffect ==
    \A b \in BatchIds :
        (\A r \in BatchRides(items, b) : rides[r].status = "in_progress")
            => LET after == completeBatch(DB, b, now)
                   d == batches[b].driver_id
               IN /\ after.batches[b] = [batches[b] EXCEPT !.status = "completed"]
                  /\ \A r \in BatchRides(items, b) :
                        /\ after.rides[r].status = "completed"
                        /\ after.rides[r].completion_timestamp # NoTime
                  /\ after.drivers[d].current_status = "available"
                  /\ after.drivers[d].current_passenger_load = 0
                  /\ \A r \in RideIds \ BatchRides(items, b) : after.rides[r] = rides[r]
                  /\ \A e \in Drivers \ {d} : after.drivers[e] = drivers[e]
                  /\ \A c \in BatchIds \ {b} : after.batches[c] = batches[c]
                  /\ after.items = items

C14_Witness ==
    \E b \in BatchIds, c \in BatchIds :
        /\ b # c
        /\ batches[b].status = "completed"
        /\ \A r \in BatchRides(items, b) :
              rides[r].status = "completed" /\ rides[r].completion_timestamp # NoTime
        /\ drivers[batches[b].driver_id].current_status = "available"
        /\ drivers[batches[b].driver_id].current_passenger_load = 0
        /\ batches[c].status = "in_progress"
        /\ batches[c].driver_id # batches[b].driver_id
        /\ drivers[batches[c].driver_id].current_status = "assigned"

RideIdLists ==
    {<<r>> : r \in RideIds} \cup {x \in RideIds \X RideIds : x[1] < x[2]}

\* C15: when the insert of the batch items fails inside createBatch, the call
\* returns an error, the batch row it had just inserted is gone (the batches
\* are what they were, none of them without items), and no ride row, driver
\* row or item row differs from before the call; a batchDispatch run whose
\* item inserts all fail therefore changes nothing and counts nothing.
C15_ItemsErrorLeavesNothing ==
    /\ \A d \in Drivers, ids \in RideIdLists :
          (Truthy(drivers[d].current_lat) /\ Truthy(drivers[d].current_lng))
              => LET res == createBatch(DB, d, ids, TRUE)
                 IN /\ ~res.ok
                    /\ res.db.batches = batches
                    /\ \A b \in 1..Len(res.db.batches) : ItemsOf(res.db.items, b) # {}
                    /\ res.db.rides = rides
                    /\ res.db.drivers = drivers
                    /\ res.db.items = items
    /\ batchDispatch(DB, TRUE) = [db |-> DB, batchesCreated |-> 0, ridesAssigned |-> 0]

C15_Witness ==
    /\ last = Result("batchDispatch", TRUE, 0)
    /\ batchDispatch(DB, FALSE).batchesCreated > 0
    /\ batches # <<>>

\* The no-shows recorded against a rider; under SpecSafety a ride becomes a
\* no_show only through processNoShow, one increment each
NoShowsOf(h) ==
    Cardinality({r \in RideIds : rides[r].status = "no_show"
                                 /\ rides[r].rider_identifier_hash = h})

\* C16: for one rider, after one increment there is a record with count 1
\* and no cooldown; the increment that brings the count to the threshold
\* (the second) sets cooldown_until to 15 minutes after its own time and
\* stores count 0, and getCooldownStatus at that time answers in cooldown
\* with between 1 and 15 minutes remaining.
C16_SecondNoShowSetsCooldown ==
    \A h \in Hashes :
        LET n == NoShowsOf(h)
            pen == penalties[h]
            after == incrementNoShowCount(penalties, h, now)
            status == getCooldownStatus(after, h, now)
        IN /\ n = 0 => ~pen.present
           /\ n >= 1 => pen.present /\ pen.no_show_count = n % NO_SHOW_THRESHOLD
           /\ (n >= 1 /\ n < NO_SHOW_THRESHOLD) => pen.cooldown_until = NoTime
           /\ n >= NO_SHOW_THRESHOLD
                => pen.cooldown_until # NoTime /\ pen.cooldown_until <= now + COOLDOWN_MINUTES
           /\ n = 0 => /\ after[h].no_show_count = 1
                       /\ after[h].cooldown_until = NoTime
                       /\ ~status.is_in_cooldown
           /\ n = NO_SHOW_THRESHOLD - 1
                => /\ after[h].no_show_count = 0
                   /\ after[h].cooldown_until = now + COOLDOWN_MINUTES
                   /\ status.is_in_cooldown
                   /\ status.remaining_minutes > 0
                   /\ status.remaining_minutes <= COOLDOWN_MINUTES

C16_Witness ==
    \E h \in Hashes :
        /\ NoShowsOf(h) = NO_SHOW_THRESHOLD
        /\ penalties[h].no_show_count = 0
        /\ penalties[h].cooldown_until = now + COOLDOWN_MINUTES
        /\ getCooldownStatus(penalties, h, now).is_in_cooldown
        /\ \E r \in RideIds : rides[r].status = "no_show" /\ rides[r].arrival_timestamp > 0

\* C17: getCooldownStatus answers "in cooldown" exactly when the rider has a
\* penalty record whose cooldown_until is strictly later than the current
\* time, and a step that fetches the status leaves every table as it was.
C17_CooldownStatusIffActive ==
    /\ [](\A h \in Hashes :
            getCooldownStatus(penalties, h, now).is_in_cooldown
                <=> (/\ penalties[h].present
                     /\ penalties[h].cooldown_until # NoTime
                     /\ penalties[h].cooldown_until > now))
    /\ [][cooldownStatus' # cooldownStatus
            => /\ UNCHANGED <<rides, drivers, batches, items, penalties>>
               /\ \E h \in Hashes :
                     cooldownStatus'[h] = getCooldownStatus(penalties, h, now)]_vars

C17_Witness ==
    \E h \in Hashes :
        /\ cooldownStatus[h].is_in_cooldown
        /\ cooldownStatus[h].remaining_minutes < COOLDOWN_MINUTES
        /\ penalties[h].cooldown_until = now
        /\ ~getCooldownStatus(penalties, h, now).is_in_cooldown

\* C18: while a rider's cooldown is active, submitting the request form for
\* that rider creates no ride, whenever the page fetched the rider's status.
C18_NoRideDuringCooldown ==
    \A h \in Hashes :
        InCooldown(h)
            => \A lat \in NearLats, lng \in Lngs, pc \in SingleRider :
                  handleRideSubmit(rides, cooldownStatus[h], lat, lng, pc, h) = rides

\* C19: confirmRiderPresence on a ride that is arrived sets that ride to
\* in_progress with rider_confirmed true and touches no other ride; on a
\* ride in any other status it changes no row; in both cases it reports
\* success.
C19_ConfirmOnlyWhenArrived ==
    \A r \in RideIds :
        LET res == confirmRiderPresence(rides, r)
        IN /\ res.success
           /\ rides[r].status = "arrived"
                => res.rides = [rides EXCEPT ![r].status = "in_progress",
                                             ![r].rider_confirmed = TRUE]
           /\ rides[r].status # "arrived" => res.rides = rides

C19_Witness ==
    \E r \in RideIds, q \in RideIds :
        /\ rides[r].status = "in_progress"
        /\ rides[r].rider_confirmed
        /\ rides[q].status \in {"no_show", "cancelled", "waiting"}

\* C20: getExpiredNoShowRides returns no ride that is confirmed, none whose
\* deadline is missing or has not passed (a deadline equal to now has not),
\* none in a status other than arrived, and every ride that is arrived,
\* unconfirmed and past its deadline.
C20_ExpiredRidesExactly ==
    LET expired == getExpiredNoShowRides(rides, now)
    IN /\ expired \subseteq RideIds
       /\ \A r \in expired :
             /\ rides[r].status = "arrived"
             /\ ~rides[r].rider_confirmed
             /\ rides[r].arrival_deadline_timestamp # NoTime
             /\ now > rides[r].arrival_deadline_timestamp
       /\ \A r \in RideIds \ expired :
             \/ rides[r].status # "arrived"
             \/ rides[r].rider_confirmed
             \/ rides[r].arrival_deadline_timestamp = NoTime
             \/ now <= rides[r].arrival_deadline_timestamp

C20_Witness ==
    \E r \in RideIds, q \in RideIds :
        /\ r \in getExpiredNoShowRides(rides, now)
        /\ q \notin getExpiredNoShowRides(rides, now)
        /\ rides[q].status = "arrived"
        /\ rides[q].arrival_deadline_timestamp = now

\* C21: processNoShow, called as the sweep calls it on a ride that is
\* arrived, unconfirmed and past its deadline, leaves the ride no_show and
\* the given driver available; with a rider hash the rider's counter moves
\* one step (count + 1, or count 0 and a cooldown of 15 minutes once the
\* threshold is reached) and without one the penalties stay as they were;
\* no other ride is touched.
C21_ProcessNoShowEffect ==
    \A r \in getExpiredNoShowRides(rides, now) :
        LET h == rides[r].rider_identifier_hash
            d == rides[r].assigned_driver_id
            st == processNoShow([rides |-> rides, drivers |-> drivers,
                                 penalties |-> penalties], r, h, d, now)
        IN /\ st.rides = [rides EXCEPT ![r].status = "no_show"]
           /\ d # Null => st.drivers[d].current_status = "available"
           /\ h = NoHash => st.penalties = penalties
           /\ h # NoHash =>
                /\ \A g \in Hashes \ {h} : st.penalties[g] = penalties[g]
                /\ st.penalties[h].present
                /\ IF ~penalties[h].present
                   THEN st.penalties[h].no_show_count = 1
                   ELSE IF penalties[h].no_show_count + 1 < NO_SHOW_THRESHOLD
                   THEN /\ st.penalties[h].no_show_count = penalties[h].no_show_count + 1
                        /\ st.penalties[h].cooldown_until = penalties[h].cooldown_until
                   ELSE /\ st.penalties[h].no_show_count = 0
                        /\ st.penalties[h].cooldown_until = now + COOLDOWN_MINUTES

C21_Witness ==
    \E r \in RideIds, q \in RideIds :
        /\ rides[r].status = "no_show"
        /\ rides[r].rider_identifier_hash = NoHash
        /\ drivers[rides[r].assigned_driver_id].current_status = "available"
        /\ rides[q].status = "no_show"
        /\ rides[q].rider_identifier_hash # NoHash
        /\ penalties[rides[q].rider_identifier_hash].no_show_count = 1

\* C22: in every reachable state, whatever calls came before, a smartDispatch
\* call assigns at most one ride and a dispatchAllRides call any number, and
\* after either no ride that the call assigned is younger than a ride that is
\* still waiting (rides are numbered in creation order); with no waiting
\* ride the call assigns nothing and changes nothing.
C22_OldestWaitingFirst ==
    LET one == smartDispatch(DB, FALSE)
        all == dispatchAllRides(DB, NoFailure)
        newly(db) == {r \in WaitingRides : db.rides[r].status # "waiting"}
        inOrder(db) == \A r \in newly(db), q \in RideIds :
                          q < r => db.rides[q].status # "waiting"
    IN /\ Cardinality(newly(one.db)) = IF one.assigned THEN 1 ELSE 0
       /\ inOrder(one.db)
       /\ \A r \in newly(one.db) : one.db.rides[r].status = "assigned"
       /\ Cardinality(newly(all.db)) = all.assignedCount
       /\ inOrder(all.db)
       /\ \A r \in RideIds \ WaitingRides :
             one.db.rides[r] = rides[r] /\ all.db.rides[r] = rides[r]
       /\ WaitingRides = {} => one.db = DB /\ all.db = DB /\ ~one.assigned

C22_Witness ==
    /\ last \in {Result("smartDispatch", TRUE, 1), Result("dispatchAllRides", TRUE, 1)}
    /\ \E r \in RideIds, q \in RideIds :
          /\ r < q
          /\ rides[r].status = "assigned"
          /\ rides[r].batch_id = Null
          /\ rides[q].status = "waiting"
          /\ rides[q].pickup_lat # rides[r].pickup_lat

\* C23: for every pickup point, findNearestDriver returns a driver that is
\* online, available and has non-null coordinates, at minimal distance among
\* all such drivers (the lowest row on ties), and returns none only when
\* there is no such driver, a coordinate of 0 being a coordinate like any
\* other.
C23_NearestAmongCandidates ==
    \A lat \in PickupLats, lng \in Lngs :
        LET nearest == findNearestDriver(drivers, lat, lng)
            dist(d) == haversineDistance(lat, lng, drivers[d].current_lat,
                                         drivers[d].current_lng)
        IN /\ nearest = Null <=> ReadyDrivers = {}
           /\ nearest # Null
                => /\ nearest \in ReadyDrivers
                   /\ \A e \in ReadyDrivers :
                         dist(nearest) < dist(e) \/ (dist(nearest) = dist(e) /\ nearest <= e)

\* C24: a transition to arrived that succeeds leaves the ride arrived with
\* arrival_timestamp = now, arrival_deadline_timestamp = now + 3 minutes and
\* rider_confirmed = false, and every ride that is arrived has a deadline
\* exactly 3 minutes after its arrival timestamp.
C24_ArrivalStampsDeadline ==
    /\ \A r \in RideIds, d \in Drivers \cup {Null} :
          LET res == transitionRideStatus(DB, r, "arrived", d, now)
          IN res.ok
               => res.db.rides[r] = [rides[r] EXCEPT
                        !.status = "arrived",
                        !.arrival_timestamp = now,
                        !.arrival_deadline_timestamp = now + NO_SHOW_TIMER_MINUTES,
                        !.rider_confirmed = FALSE]
    /\ \A r \in RideIds :
          rides[r].status = "arrived"
              => /\ rides[r].arrival_timestamp # NoTime
                 /\ rides[r].arrival_deadline_timestamp
                        = rides[r].arrival_timestamp + NO_SHOW_TIMER_MINUTES
                 /\ ~rides[r].rider_confirmed

C24_Witness ==
    /\ last = Result("transitionRideStatus", TRUE, 0)
    /\ now > 0
    /\ \E r \in RideIds :
          /\ rides[r].status = "arrived"
          /\ rides[r].arrival_timestamp = now
          /\ rides[r].arrival_deadline_timestamp = now + NO_SHOW_TIMER_MINUTES

\* C25: a transition that succeeds and leads to completed, cancelled or
\* no_show sets the status of the associated driver (the driverId argument,
\* or without one the ride's assigned driver) to available and changes
\* nothing else of any driver; a transition to another status, or one of a
\* ride with no associated driver, leaves every driver row as it was.
C25_TerminalTransitionFreesDriver ==
    \A r \in RideIds, s \in RideStatus, d \in Drivers \cup {Null} :
        LET res == transitionRideStatus(DB, r, s, d, now)
            target == IF d # Null THEN d ELSE rides[r].assigned_driver_id
        IN res.ok
             => IF s \in TerminalStatus /\ target # Null
                THEN res.db.drivers = [drivers EXCEPT ![target].current_status = "available"]
                ELSE res.db.drivers = drivers

C25_Witness ==
    /\ last = Result("transitionRideStatus", TRUE, 0)
    /\ \E r \in RideIds, q \in RideIds :
          /\ rides[r].status = "no_show"
          /\ rides[r].assigned_driver_id # Null
          /\ drivers[rides[r].assigned_driver_id].current_status = "available"
          /\ rides[q].status = "cancelled"
          /\ rides[q].assigned_driver_id = Null

\* C26: in one batchDispatch call every cluster of waiting, unbatched rides
\* gets at most one batch and every batch holds rides of one cluster; the
\* batches are created in the order of the clusters' oldest rides; no driver
\* gets two of them; and a cluster that got none while a younger cluster got
\* a driver is one for which that driver had no room.
C26_ClustersOldestFirst ==
    LET res == batchDispatch(DB, FALSE)
        found == clusterRides(rides, 1, <<>>)
        clusters == {found[k] : k \in 1..Len(found)}
        idsOf(K) == {K.ride_ids[i] : i \in 1..Len(K.ride_ids)}
        oldest(K) == K.ride_ids[1]
        created == (Len(batches) + 1)..Len(res.db.batches)
        ridesIn(b) == {r \in RideIds : res.db.rides[r].batch_id = b}
        got(K) == {b \in created : ridesIn(b) \cap idsOf(K) # {}}
        driverOf(b) == res.db.batches[b].driver_id
    IN /\ Cardinality(created) = res.batchesCreated
       /\ \A b \in created : \E K \in clusters : ridesIn(b) # {} /\ ridesIn(b) \subseteq idsOf(K)
       /\ \A K \in clusters : Cardinality(got(K)) <= 1
       /\ \A b \in created, c \in created : b # c => driverOf(b) # driverOf(c)
       /\ \A K1 \in clusters, K2 \in clusters :
             oldest(K1) < oldest(K2)
                => /\ \A b1 \in got(K1), b2 \in got(K2) : b1 < b2
                   /\ \A b2 \in got(K2) :
                         got(K1) = {}
                            => FreeCapacity(drivers[driverOf(b2)])
                                   < Min(K1.total_passengers, MAX_PER_TRIP)

C26_Witness ==
    /\ last = Result("batchDispatch", TRUE, 1)
    /\ Len(batches) = 1
    /\ \E r \in RideIds, q \in RideIds :
          /\ r < q
          /\ rides[r].batch_id = 1
          /\ rides[q].status = "waiting"
          /\ rides[q].pickup_lat # rides[r].pickup_lat
          /\ rides[q].passenger_count = rides[r].passenger_count

\* C27: in every reachable state a driver whose status is offline is not
\* online.
C27_OfflineIsNotOnline ==
    \A d \in Drivers : drivers[d].current_status = "offline" => ~drivers[d].is_online

C27_Witness ==
    \E d \in Drivers, r \in RideIds :
        /\ drivers[d].current_status = "offline"
        /\ ~drivers[d].is_online
        /\ rides[r].assigned_driver_id = d
        /\ rides[r].status = "completed"

\* the active rides and the active batches that hold driver d
HoldsActive(d) ==
    \/ \E r \in RideIds : rides[r].assigned_driver_id = d /\ rides[r].status \in ActiveStatus
    \/ ActiveBatchesOf(d) # {}

\* C28: a step that deletes a driver's row finds the driver offline and
\* holding no active ride and no active batch.
C28_RemovedOnlyWhenOfflineAndIdle ==
    [][\A d \in Drivers :
            (drivers[d] # DeletedDriver /\ drivers'[d] = DeletedDriver)
                => (drivers[d].current_status = "offline" /\ ~HoldsActive(d))]_vars

\* a pickup far enough from every driver for the fallback to reach its cap
FarLat == 64
EtaPickupLats == PickupLats \cup {FarLat}

\* C29: whenever the provider is not configured, throws or answers with a
\* status that is not OK, calculateETA for a located driver and any pickup
\* returns (no exception escapes) the fallback result, its etaMinutes between
\* MIN_ETA_MINUTES and MAX_ETA_MINUTES.
C29_ProviderFailureGivesFallback ==
    \A d \in Drivers, lat \in EtaPickupLats, lng \in Lngs, outcome \in ProviderFailures :
        (Truthy(drivers[d].current_lat) /\ Truthy(drivers[d].current_lng)) =>
            LET res == calculateETAResult(drivers[d].current_lat, drivers[d].current_lng,
                                          lat, lng, outcome, MAX_ETA_MINUTES + 1)
            IN /\ ~res.threw
               /\ res.source = "fallback"
               /\ res.etaMinutes >= MIN_ETA_MINUTES
               /\ res.etaMinutes <= MAX_ETA_MINUTES

C29_Witness ==
    \E d \in Drivers, r \in RideIds :
        /\ Truthy(drivers[d].current_lat) /\ Truthy(drivers[d].current_lng)
        /\ rides[r].batch_id # Null
        /\ rides[r].assigned_driver_id = d
        /\ calculateETAResult(drivers[d].current_lat, drivers[d].current_lng,
                              rides[r].pickup_lat, rides[r].pickup_lng, "throws", 0)
                = [threw |-> FALSE, etaMinutes |-> MIN_ETA_MINUTES, source |-> "fallback"]
        /\ calculateETAResult(drivers[d].current_lat, drivers[d].current_lng,
                              FarLat, rides[r].pickup_lng, "not_ok", 0)
                = [threw |-> FALSE, etaMinutes |-> MAX_ETA_MINUTES, source |-> "fallback"]

\* C30: a ride whose rider has confirmed (rider_confirmed = true, set
\* together with status in_progress) is never in status no_show, whatever
\* sweep was under way when the confirmation took effect.
C30_ConfirmedRideNeverNoShow ==
    \A r \in RideIds : rides[r].rider_confirmed => rides[r].status # "no_show"

\* C31: a rider's penalty record counts each of the rider's no_show rides
\* once: below the threshold the stored count is the number of those rides
\* and no cooldown is set, so one no-show alone never starts a cooldown.
C31_OneIncrementPerNoShow ==
    \A h \in Hashes :
        LET n == NoShowsOf(h)
        IN n < NO_SHOW_THRESHOLD =>
              /\ penalties[h].no_show_count = n
              /\ penalties[h].cooldown_until = NoTime

\* C32: no ride is an item of two batches: a ride that a batch has taken is
\* not waiting any more, and the batch write takes waiting rides only.
C32_NoRideInTwoBatches ==
    \A i \in 1..Len(items), j \in 1..Len(items) :
        i # j => items[i].ride_request_id # items[j].ride_request_id

\* C33: in every reachable state a driver whose status is available carries
\* no passengers (current_passenger_load = 0).
C33_AvailableDriverIsEmpty ==
    \A d \in Drivers :
        drivers[d].current_status = "available" => drivers[d].current_passenger_load = 0

\* C34: in every reachable state every ride in status assigned, arrived or
\* in_progress has a driver, that driver's row exists and its status is
\* assigned.
C34_ActiveRideHasAssignedDriver ==
    \A r \in RideIds :
        rides[r].status \in ActiveStatus =>
            /\ rides[r].assigned_driver_id # Null
            /\ drivers[rides[r].assigned_driver_id] # DeletedDriver
            /\ drivers[rides[r].assigned_driver_id].current_status = "assigned"

\* C35: markPickupComplete on an item of a batch leaves every driver row,
\* the other items and the rows of the other rides as they were; and a step
\* that takes a driver's load from above zero to zero is completeBatch on
\* a batch of that driver.
C35_PickupLeavesDriverAndOthers ==
    /\ [](\A i \in ItemIds :
            LET after == markPickupComplete(DB, i)
            IN /\ after.drivers = drivers
               /\ \A j \in ItemIds : j # i => after.items[j] = items[j]
               /\ \A r \in RideIds : r # items[i].ride_request_id => after.rides[r] = rides[r])
    /\ [][\A d \in Drivers :
            (drivers[d].current_passenger_load > 0 /\ drivers'[d].current_passenger_load = 0)
                => \E b \in BatchIds :
                      /\ batches[b].driver_id = d
                      /\ [rides |-> rides', drivers |-> drivers',
                          batches |-> batches', items |-> items']
                            = completeBatch(DB, b, now)]_vars

C35_Witness ==
    \E i \in ItemIds, j \in ItemIds :
        /\ i # j
        /\ items[i].batch_id = items[j].batch_id
        /\ items[i].picked_up /\ ~items[j].picked_up
        /\ rides[items[i].ride_request_id].status = "in_progress"
        /\ rides[items[j].ride_request_id].status = "assigned"
        /\ LET d == batches[items[i].batch_id].driver_id
           IN /\ drivers[d].current_status = "assigned"
              /\ drivers[d].current_passenger_load = batches[items[i].batch_id].total_passengers

\* C36: with the sweep endpoint invoked again and again, a ride that is
\* arrived, unconfirmed and past its arrival deadline leads to that ride in
\* status no_show with its driver available, unless the rider confirms or the
\* ride is cancelled first.
C36_ExpiredRideEventuallyNoShow ==
    \A r \in 1..MaxRides :
        (/\ r \in RideIds
         /\ rides[r].status = "arrived"
         /\ ~rides[r].rider_confirmed
         /\ rides[r].arrival_deadline_timestamp # NoTime
         /\ rides[r].arrival_deadline_timestamp < now)
        ~> (/\ r \in RideIds
            /\ \/ /\ rides[r].status = "no_show"
                  /\ rides[r].assigned_driver_id # Null
                  /\ drivers[rides[r].assigned_driver_id].current_status = "available"
               \/ rides[r].rider_confirmed
               \/ rides[r].status = "cancelled")

C36_Witness ==
    \E r \in RideIds :
        /\ rides[r].status = "no_show"
        /\ ~rides[r].rider_confirmed
        /\ rides[r].arrival_deadline_timestamp < now
        /\ drivers[rides[r].assigned_driver_id].current_status = "available"
        /\ \A c \in Calls : calls[c].pc = "idle"

\* C37: wherever a ride waits beside a driver that is online, available,
\* located and has free capacity for the ride's party, batchDispatch has
\* something to write; otherwise every further call leaves the ride waiting
\* for as long as the driver stays as it is.
C37_EligibleDriverMeansProgress ==
    \A r \in RideIds, d \in Drivers :
        (/\ rides[r].status = "waiting"
         /\ rides[r].batch_id = Null
         /\ drivers[d].is_online
         /\ drivers[d].current_status = "available"
         /\ drivers[d].current_lat # NoCoord
         /\ drivers[d].current_lng # NoCoord
         /\ FreeCapacity(drivers[d]) >= rides[r].passenger_count)
            => BatchDispatchEnabled

\* the passengers of the rides of ids[1..i-1] that are in the selection
RECURSIVE TakenBefore(_, _, _)
TakenBefore(sel, ids, i) ==
    IF i <= 1 THEN 0
    ELSE TakenBefore(sel, ids, i - 1)
         + (IF \E k \in 1..Len(sel) : sel[k] = ids[i - 1]
            THEN rides[ids[i - 1]].passenger_count ELSE 0)

\* C38: for every cluster of waiting rides for which some driver has the
\* capacity batchDispatch asks for, the rides selected for the chosen driver
\* are not empty, begin with the cluster's oldest ride, and hold a later ride
\* exactly when it fits beside the rides selected before it.
C38_SelectionTakesOldestAndWhatFits ==
    LET clusters == getWaitingRidesByCluster(rides)
    IN \A k \in 1..Len(clusters) :
          LET cluster == clusters[k]
              ids == cluster.ride_ids
              cands == findAvailableDriversWithCapacity(drivers,
                            Min(cluster.total_passengers, MAX_PER_TRIP))
          IN cands # {} =>
                LET nearestDriver == pickBatchDriver(drivers, cands, cluster)
                    driverCapacity == FreeCapacity(drivers[nearestDriver])
                    sel == selectRides(rides, ids, 1, 0, driverCapacity)
                IN /\ sel # <<>>
                   /\ sel[1] = ids[1]
                   /\ \A q \in 1..Len(ids) : ids[1] <= ids[q]
                   /\ \A i \in 1..Len(ids) :
                        (\E j \in 1..Len(sel) : sel[j] = ids[i])
                            <=> (TakenBefore(sel, ids, i) + rides[ids[i]].passenger_count
                                    <= driverCapacity)

\* a batch that took the oldest and the newest ride of a cluster and left the
\* one between them, which did not fit, waiting
C38_Witness ==
    /\ Len(rides) = MaxQueue
    /\ rides[1].batch_id # Null
    /\ rides[3].batch_id = rides[1].batch_id
    /\ rides[1].status = "assigned" /\ rides[3].status = "assigned"
    /\ rides[2].status = "waiting"
    /\ rides[2].batch_id = Null
    /\ drivers[rides[1].assigned_driver_id].current_passenger_load
            = rides[1].passenger_count + rides[3].passenger_count

\* C39: every completed ride has a completion_timestamp, and a completed
\* ride that has an arrival_timestamp arrived no later than it completed.
C39_CompletedRideIsStamped ==
    \A r \in RideIds :
        rides[r].status = "completed" =>
            /\ rides[r].completion_timestamp # NoTime
            /\ rides[r].arrival_timestamp # NoTime
                  => rides[r].arrival_timestamp <= rides[r].completion_timestamp

C39_Witness ==
    \E r \in RideIds, q \in RideIds :
        /\ rides[r].status = "completed" /\ rides[r].batch_id # Null
        /\ batches[rides[r].batch_id].status = "completed"
        /\ rides[r].arrival_timestamp # NoTime
        /\ rides[r].arrival_timestamp < rides[r].completion_timestamp
        /\ rides[q].status = "completed" /\ rides[q].batch_id = Null
        /\ rides[q].arrival_timestamp # NoTime
        /\ rides[q].completion_timestamp # NoTime

WaitingCount(rs) == Cardinality({r \in 1..Len(rs) : rs[r].status = "waiting"})

\* C40: when the storage rejects the driver write of assignDriverToRide, the
\* operation reports failure with the ride assigned to the driver and the
\* driver rows as they were; smartDispatch then reports assigned = false and
\* the error; dispatchAllRides returns at once with the error and the number
\* of rides assigned before the failing one.
C40_DriverWriteFailureIsReported ==
    /\ \A r \in RideIds, d \in Drivers :
          isValidTransition(rides[r].status, "assigned") =>
              LET res == assignDriverToRide(DB, r, d, Null, TRUE)
              IN /\ ~res.ok
                 /\ res.db.rides[r].status = "assigned"
                 /\ res.db.rides[r].assigned_driver_id = d
                 /\ res.db.drivers = drivers
    /\ LET ride == getOldestWaitingRide(rides)
           driver == IF ride = Null THEN Null
                     ELSE findNearestDriver(drivers, rides[ride].pickup_lat,
                                            rides[ride].pickup_lng)
           res == smartDispatch(DB, TRUE)
       IN (ride # Null /\ driver # Null) =>
              /\ ~res.assigned
              /\ ~res.ok
              /\ res.db.rides[ride].status = "assigned"
              /\ res.db.rides[ride].assigned_driver_id = driver
              /\ res.db.drivers[driver].current_status = "available"
    /\ \A n \in 1..MaxRides :
          LET clean == dispatchAllRides(DB, NoFailure)
              res == dispatchAllRides(DB, n)
          IN clean.assignedCount >= n =>
                /\ res.returned
                /\ ~res.ok
                /\ res.assignedCount = n - 1
                /\ WaitingCount(res.db.rides) = WaitingCount(rides) - n

C40_Witness ==
    /\ last = Result("dispatchAllRides", FALSE, 1)
    /\ \E r \in RideIds, q \in RideIds :
          /\ rides[r].status = "assigned"
          /\ drivers[rides[r].assigned_driver_id].current_status = "assigned"
          /\ rides[q].status = "assigned"
          /\ rides[q].assigned_driver_id # rides[r].assigned_driver_id
          /\ drivers[rides[q].assigned_driver_id].current_status = "available"

====
